---- MODULE Spec2Model ----
(***************************************************************************)
(* A model of the SonarQube coverage adapter of screwdriver-cd             *)
(* (src/index.js): the module-level configuration written by the           *)
(* constructor, the project resolver getProjectData, the provisioning      *)
(* chain of _getAccessToken and the metrics lookup of _getInfo.            *)
(*                                                                         *)
(* JavaScript values are modelled as follows.  A string is a TLA+ string.  *)
(* The value `undefined' (and every other absent value) is the string      *)
(* Undefined, which no input of the model contains.  A template literal    *)
(* `${v}' is Tpl(v), which prints `undefined' for an absent value.  An     *)
(* outbound request is a record in the sequence requests; its response     *)
(* is chosen, when the request settles, from the set Responses(caller).    *)
(***************************************************************************)
EXTENDS Integers, Sequences, FiniteSets, TLC

VARIABLES
    adminToken,         \* src/index.js:17, module-level
    sonarHost,          \* src/index.js:18
    sdCoverageAuthUrl,  \* src/index.js:19
    sonarEnterprise,    \* src/index.js:20
    sonarGitAppName,    \* src/index.js:21
    config,             \* this.config of the adapter that is called
    op,                 \* the public operation in progress
    pc,                 \* the position of its promise chain
    args,               \* the request object the operation was called with
    projectData,        \* the descriptor the operation works with
    password,           \* _getAccessToken's const password
    requests,           \* every call of request(), in order, with its response
    loggerError,        \* the messages passed to logger.error, in order
    loggerInfo,         \* the messages passed to logger.info, in order
    infoObject,         \* _getInfo's infoObject
    result,             \* how the operation's promise settled
    COMMANDS,           \* src/index.js:14, the content of commands.txt
    uploadCommands,     \* this.uploadCommands of the adapter that is called
    calls,              \* the getAccessToken calls that run side by side
    server,             \* what the Sonar server holds: projects, users, bindings
    returned            \* what _getUploadCoverageCmd resolved with, call by call

vars == <<adminToken, sonarHost, sdCoverageAuthUrl, sonarEnterprise, sonarGitAppName,
          config, op, pc, args, projectData, password, requests, loggerError,
          loggerInfo, infoObject, result, COMMANDS, uploadCommands, calls, server,
          returned>>

moduleVars == <<adminToken, sonarHost, sdCoverageAuthUrl, sonarEnterprise,
                sonarGitAppName, config, COMMANDS, uploadCommands>>

\* what only the sections on concurrent and on repeated calls change
concurrentVars == <<calls, server, returned>>

-----------------------------------------------------------------------------
(* JavaScript values *)

Undefined == "<absent>"

Truthy(v) == v # Undefined /\ v # ""

Tpl(v) == IF v = Undefined THEN "undefined" ELSE v

\* String.prototype.includes
Includes(s, sub) ==
    \E i \in 1..(Len(s) - Len(sub) + 1) : SubSeq(s, i, i + Len(sub) - 1) = sub

\* the least index of the character c in s, or 0
IndexOf(s, c) ==
    IF \E i \in 1..Len(s) : SubSeq(s, i, i) = c
    THEN CHOOSE i \in 1..Len(s) :
            /\ SubSeq(s, i, i) = c
            /\ \A j \in 1..(i - 1) : SubSeq(s, j, j) # c
    ELSE 0

\* String.prototype.split(':'), its first two elements
SplitFirst(s) ==
    LET i == IndexOf(s, ":") IN IF i = 0 THEN s ELSE SubSeq(s, 1, i - 1)

\* a split that stops at the first separator
SplitSecondRest(s) ==
    LET i == IndexOf(s, ":") IN
    IF i = 0 THEN Undefined ELSE SubSeq(s, i + 1, Len(s))

SplitSecond(s) ==
    LET i == IndexOf(s, ":") IN
    IF i = 0 THEN Undefined
    ELSE LET rest == SubSeq(s, i + 1, Len(s))
             j == IndexOf(rest, ":")
         IN  IF j = 0 THEN rest ELSE SubSeq(rest, 1, j - 1)

\* the least index at or after i where sub occurs in s, or 0
IndexOfFrom(s, sub, i) ==
    LET hits == {k \in i..(Len(s) - Len(sub) + 1) : SubSeq(s, k, k + Len(sub) - 1) = sub}
    IN  IF hits = {} THEN 0 ELSE CHOOSE k \in hits : \A j \in hits : k <= j

\* String.prototype.replace with a string pattern: the first occurrence only
ReplaceFirst(s, pattern, replacement) ==
    LET i == IndexOfFrom(s, pattern, 1) IN
    IF i = 0 THEN s
    ELSE SubSeq(s, 1, i - 1) \o replacement \o SubSeq(s, i + Len(pattern), Len(s))

\* String.prototype.split
RECURSIVE Split(_, _)
Split(s, sep) ==
    LET i == IndexOfFrom(s, sep, 1) IN
    IF i = 0 THEN <<s>>
    ELSE <<SubSeq(s, 1, i - 1)>> \o Split(SubSeq(s, i + Len(sep), Len(s)), sep)

\* Array.prototype.join
RECURSIVE Join(_, _)
Join(lines, sep) ==
    IF lines = <<>> THEN ""
    ELSE IF Len(lines) = 1 THEN lines[1]
    ELSE lines[1] \o sep \o Join(Tail(lines), sep)

\* a boolean inside a string
BoolTpl(b) == IF b THEN "true" ELSE "false"

Digits == {"0", "1", "2", "3", "4", "5", "6", "7", "8", "9"}

WordChars == Digits \cup
    {"a", "b", "c", "d", "e", "f", "g", "h", "i", "j", "k", "l", "m", "n", "o",
     "p", "q", "r", "s", "t", "u", "v", "w", "x", "y", "z", "A", "B", "C", "D",
     "E", "F", "G", "H", "I", "J", "K", "L", "M", "N", "O", "P", "Q", "R", "S",
     "T", "U", "V", "W", "X", "Y", "Z", "_"}

AllIn(s, chars) == \A i \in 1..Len(s) : SubSeq(s, i, i) \in chars

\* encodeURIComponent, on the reserved characters the model's strings contain
EncodeChar(c) ==
    CASE c = ":" -> "%3A"
      [] c = "/" -> "%2F"
      [] c = " " -> "%20"
      [] c = "+" -> "%2B"
      [] OTHER   -> c

RECURSIVE encodeURIComponent(_)
encodeURIComponent(s) ==
    IF Len(s) = 0 THEN ""
    ELSE EncodeChar(SubSeq(s, 1, 1)) \o encodeURIComponent(SubSeq(s, 2, Len(s)))

-----------------------------------------------------------------------------
(* The resolver *)

\* /^PR-(\d+)(?::([\w-]+))?$/ : the index of the ':' that ends the digits, 0
\* when the name is PR-<digits> alone, -1 when the name does not match
PrRegexColon(jobName) ==
    IF Len(jobName) < 4 \/ SubSeq(jobName, 1, 3) # "PR-" THEN -1
    ELSE LET rest == SubSeq(jobName, 4, Len(jobName))
             i == IndexOf(rest, ":")
         IN  IF i = 0
             THEN IF AllIn(rest, Digits) THEN 0 ELSE -1
             ELSE IF /\ i > 1
                     /\ AllIn(SubSeq(rest, 1, i - 1), Digits)
                     /\ i < Len(rest)
                     /\ AllIn(SubSeq(rest, i + 1, Len(rest)), WordChars \cup {"-"})
                  THEN i + 3 ELSE -1

\* prNameMatch[2] of a matching name
PrRegexGroup2(jobName) ==
    LET i == PrRegexColon(jobName) IN
    IF i = 0 THEN Undefined ELSE SubSeq(jobName, i + 1, Len(jobName))

\* mutant: the annotation is used whenever it is present, the literal
\* 'undefined' too
CoverageScopeAnyAnnotation(c) ==
    IF Truthy(c.scope) THEN c.scope
    ELSE IF c.enterpriseEnabled THEN "pipeline" ELSE "job"

\* the coverage scope of a call without explicit projectKey
CoverageScope(c) ==
    LET userScope == IF Truthy(c.scope) /\ c.scope # "undefined" THEN c.scope ELSE Undefined
    IN  IF Truthy(userScope) THEN userScope
        ELSE IF c.enterpriseEnabled THEN "pipeline" ELSE "job"

\* the PR branch of the job scope is taken
PrBranch(c) == Truthy(c.prNum) /\ CoverageScope(c) = "job" /\ c.enterpriseEnabled

\* jobName.match() of an absent jobName is a TypeError
GetProjectDataThrows(c) ==
    /\ ~Truthy(c.projectKey)
    /\ CoverageScope(c) # "pipeline"
    /\ PrBranch(c)
    /\ c.jobName = Undefined

getProjectData(c) ==
    IF Truthy(c.projectKey)
    THEN LET projectScope == SplitFirst(c.projectKey)
             id == SplitSecond(c.projectKey)
         IN  [projectKey   |-> c.projectKey,
              username     |-> "user-" \o Tpl(projectScope) \o "-" \o Tpl(id),
              projectName  |-> IF projectScope = "pipeline" THEN c.pipelineName
                               ELSE Tpl(c.pipelineName) \o ":" \o Tpl(c.jobName),
              projectScope |-> projectScope]
    ELSE IF CoverageScope(c) = "pipeline"
    THEN [projectKey   |-> "pipeline:" \o Tpl(c.pipelineId),
          projectName  |-> c.pipelineName,
          username     |-> "user-pipeline-" \o Tpl(c.pipelineId),
          projectScope |-> CoverageScope(c)]
    ELSE LET prNameMatch == IF PrBranch(c) THEN PrRegexColon(c.jobName) ELSE -1
             jobId == IF PrBranch(c) THEN c.prParentJobId ELSE c.jobId
             jobName == IF PrBranch(c) /\ prNameMatch >= 0
                        THEN PrRegexGroup2(c.jobName) ELSE c.jobName
         IN  [projectKey   |-> "job:" \o Tpl(jobId),
              projectName  |-> Tpl(c.pipelineName) \o ":" \o Tpl(jobName),
              username     |-> "user-job-" \o Tpl(jobId),
              projectScope |-> CoverageScope(c)]

-----------------------------------------------------------------------------
(* The external collaborators: the request function and the clock *)

\* the value of a fulfilled request that carries nothing
Null == [null |-> TRUE]

Pending == [settled |-> "pending", statusCode |-> 0, message |-> "", body |-> Null]

Resolved(body) == [settled |-> "resolved", statusCode |-> 200, message |-> "", body |-> body]

Rejected(statusCode, message) ==
    [settled |-> "rejected", statusCode |-> statusCode, message |-> message, body |-> Null]

\* the rejections a request can settle with: { statusCode, message }
Errors ==
    {Rejected(400, "Project already exists."),
     Rejected(400, "Component key 'job:1' not found"),
     Rejected(404, "Component key 'job:1' not found"),
     Rejected(404, "user already exists.")}

TokenBodies == {[token |-> "accesstoken"], [token |-> Undefined], Null}

Responses(caller) ==
    Errors \cup
    (IF caller = "generateToken" THEN {Resolved(b) : b \in TokenBodies}
     ELSE {Resolved(Null)})

\* uuidv4(): the k-th identifier drawn during a call, each one fresh
uuidv4(k) == "uuid-" \o ToString(k)

Last(seq) == seq[Len(seq)]

\* the response of the request in flight is recorded
Settle(r) == [requests EXCEPT ![Len(requests)].response = r]

-----------------------------------------------------------------------------
(* The remote calls of the provisioning chain *)

Request(caller, method, url) ==
    [caller |-> caller, method |-> method, url |-> url, username |-> adminToken,
     response |-> Pending]

createProject(projectKey) ==
    Request("createProject", "POST",
            sonarHost \o "/api/projects/create?project=" \o Tpl(projectKey)
                \o "&name=" \o Tpl(projectKey))

createUser(username, pw) ==
    Request("createUser", "POST",
            sonarHost \o "/api/users/create?login=" \o Tpl(username)
                \o "&name=" \o Tpl(username) \o "&password=" \o pw)

getBinding(projectKey) ==
    Request("configureGitApp", "GET",
            sonarHost \o "/api/alm_settings/get_binding?project="
                \o encodeURIComponent(Tpl(projectKey)))

setGithubBinding(projectKey, projectName) ==
    Request("configureGitApp", "POST",
            sonarHost \o "/api/alm_settings/set_github_binding?almSetting="
                \o encodeURIComponent(sonarGitAppName)
                \o "&project=" \o encodeURIComponent(Tpl(projectKey))
                \o "&repository=" \o Tpl(projectName)
                \o "&summaryCommentEnabled=true")

grantUserPermission(username, projectKey) ==
    Request("grantUserPermission", "POST",
            sonarHost \o "/api/permissions/add_user?login=" \o Tpl(username)
                \o "&permission=scan&projectKey=" \o Tpl(projectKey))

generateToken(username, tokenName) ==
    Request("generateToken", "POST",
            sonarHost \o "/api/user_tokens/generate?login=" \o Tpl(username)
                \o "&name=" \o tokenName)

\* mutant: the status or the text alone makes an 'already exists'
AlreadyExistsEither(err) == err.statusCode = 400 \/ Includes(err.message, "already exists")

\* the text compared as a whole
AlreadyExistsExact(err) == err.statusCode = 400 /\ err.message = "already exists"

\* the rejection the two creates treat as success
AlreadyExists(err) == err.statusCode = 400 /\ Includes(err.message, "already exists")

\* mutant: the create has no catch, every rejection fails the chain
CreateSucceedsResolvedOnly(r) == r.settled = "resolved"

\* a create is over and the chain goes on
CreateSucceeds(r) == r.settled = "resolved" \/ AlreadyExists(r)

createProjectError(projectKey, err) ==
    "Failed to create project " \o Tpl(projectKey) \o ": " \o err.message

createUserError(username, err) ==
    "Failed to create user " \o Tpl(username) \o ": " \o err.message

grantUserPermissionError(username, err) ==
    "Failed to grant user " \o Tpl(username) \o " permission: " \o err.message

generateTokenError(username, err) ==
    "Failed to generate user " \o Tpl(username) \o " token: " \o err.message

\* the binding added for a project without a name too
AddsBindingNameless(projectName) == sonarEnterprise

\* the binding added whatever the edition
AddsBindingAlways(projectName) == Truthy(projectName)

\* configureGitApp adds the binding that get_binding did not find
AddsBinding(projectName) == sonarEnterprise /\ Truthy(projectName)

bindingInfoMessage(projectKey) ==
    "Binding does not exist for Sonar project " \o Tpl(projectKey) \o ", adding"

configureGitAppError(projectKey, error) ==
    "Failed to configure Git App " \o sonarGitAppName \o " for Sonar project "
        \o Tpl(projectKey) \o ": " \o error.message

-----------------------------------------------------------------------------
(* The metrics lookup *)

\* new Date().toString().match(/GMT(.*?) /)[1] on the machine that runs the call
TimezoneOffsets == {"+0000", "-0700"}

\* String.prototype.replace(/\.(.*)/, offset)
ReplaceFraction(time, offset) ==
    LET i == IndexOf(time, ".") IN
    IF i = 0 THEN time ELSE SubSeq(time, 1, i - 1) \o offset

coverageUrl(projectKey, startTime, endTime, prNum, enterpriseEnabled, timezoneOffset) ==
    sonarHost \o "/api/measures/search_history?component="
        \o encodeURIComponent(Tpl(projectKey))
        \o "&metrics=tests,test_errors,test_failures,coverage&from="
        \o encodeURIComponent(ReplaceFraction(startTime, timezoneOffset))
        \o "&to=" \o encodeURIComponent(ReplaceFraction(endTime, timezoneOffset))
        \o "&ps=1"
        \o (IF enterpriseEnabled /\ Truthy(prNum) THEN "&pullRequest=" \o prNum ELSE "")

\* mutant: the measures are asked for with a POST
getMetricsPosts(projectKey, startTime, endTime, prNum, enterpriseEnabled, timezoneOffset) ==
    Request("getMetrics", "POST",
            coverageUrl(projectKey, startTime, endTime, prNum, enterpriseEnabled,
                        timezoneOffset))

getMetrics(projectKey, startTime, endTime, prNum, enterpriseEnabled, timezoneOffset) ==
    Request("getMetrics", "GET",
            coverageUrl(projectKey, startTime, endTime, prNum, enterpriseEnabled,
                        timezoneOffset))

\* the number of leading decimal digits of s
DigitPrefixLen(s) ==
    CHOOSE k \in 0..Len(s) :
        /\ AllIn(SubSeq(s, 1, k), Digits)
        /\ k < Len(s) => SubSeq(s, k + 1, k + 1) \notin Digits

DigitValue(c) ==
    CASE c = "0" -> 0 [] c = "1" -> 1 [] c = "2" -> 2 [] c = "3" -> 3 [] c = "4" -> 4
      [] c = "5" -> 5 [] c = "6" -> 6 [] c = "7" -> 7 [] c = "8" -> 8 [] c = "9" -> 9

RECURSIVE ToNat(_)
ToNat(s) ==
    IF Len(s) = 0 THEN 0
    ELSE 10 * ToNat(SubSeq(s, 1, Len(s) - 1)) + DigitValue(SubSeq(s, Len(s), Len(s)))

NaN == [nan |-> TRUE, n |-> 0]

\* parseInt(s, 10) of a string: the leading digits after an optional '-'
parseInt(s) ==
    LET neg == Len(s) > 0 /\ SubSeq(s, 1, 1) = "-"
        t == IF neg THEN SubSeq(s, 2, Len(s)) ELSE s
        k == DigitPrefixLen(t)
    IN  IF k = 0 THEN NaN
        ELSE [nan |-> FALSE, n |-> (IF neg THEN -1 ELSE 1) * ToNat(SubSeq(t, 1, k))]

\* Number.isNaN(Number(s)) of a string: the empty string is 0, a decimal
\* literal is its value, every other string of the model is NaN
NumberIsNaN(s) ==
    LET neg == Len(s) > 0 /\ SubSeq(s, 1, 1) = "-"
        t == IF neg THEN SubSeq(s, 2, Len(s)) ELSE s
        k == DigitPrefixLen(t)
        frac == SubSeq(t, k + 2, Len(t))
    IN  ~ \/ s = ""
          \/ k > 0 /\ k = Len(t)
          \/ /\ k < Len(t) /\ SubSeq(t, k + 1, k + 1) = "."
             /\ AllIn(frac, Digits)
             /\ k + Len(frac) > 0

Minus(a, b) == IF a.nan \/ b.nan THEN NaN ELSE [nan |-> FALSE, n |-> a.n - b.n]

NumTpl(a) == IF a.nan THEN "NaN" ELSE ToString(a.n)

\* hoek.reach(measures, '<metric>.history.0.value') of what the request
\* resolved with; it carries, per metric, the value of its first history
\* entry, and without a 'measures' of its own there is nothing to reach
Reach(body, metric) ==
    IF body = Null \/ "measures" \notin DOMAIN body THEN Undefined
    ELSE body.measures[metric]

\* parseInt of a reached value or of the default 0
parseIntOrZero(v) == IF v = Undefined THEN [nan |-> FALSE, n |-> 0] ELSE parseInt(v)

\* the then-handler of getMetrics
metricsOf(body) ==
    LET total == IF Reach(body, "tests") = Undefined THEN "N/A" ELSE Reach(body, "tests")
        totalInt == parseInt(total)
        pass == Minus(Minus(totalInt, parseIntOrZero(Reach(body, "test_errors"))),
                      parseIntOrZero(Reach(body, "test_failures")))
    IN  [coverage |-> IF Truthy(Reach(body, "coverage")) THEN Reach(body, "coverage")
                      ELSE "N/A",
         tests    |-> IF ~NumberIsNaN(total) THEN NumTpl(pass) \o "/" \o NumTpl(totalInt)
                      ELSE "N/A"]

\* the failure that means no measurement exists: /Component key '.*' not found/
ComponentNotFound(message) ==
    \E i \in 1..(Len(message) - 14) : \E j \in (i + 15)..(Len(message) - 10) :
        /\ SubSeq(message, i, i + 14) = "Component key '"
        /\ SubSeq(message, j, j + 10) = "' not found"

\* mutant: only a failure that is neither a 404 nor 'not found' is logged
LogsMetricsFailureBoth(err) == err.statusCode # 404 /\ ~ComponentNotFound(err.message)

\* the catch-handler of getMetrics logs the failure
LogsMetricsFailure(err) == err.statusCode # 404 \/ ~ComponentNotFound(err.message)

metricsError(projectKey, err) ==
    "Failed to get coverage and tests percentage for Sonar project "
        \o Tpl(projectKey) \o ": " \o err.message

NotAvailable == [tests |-> "N/A", coverage |-> "N/A"]

MeasureBodies ==
    {[measures |-> [tests |-> t, test_errors |-> e, test_failures |-> f, coverage |-> c]] :
        t \in {Undefined, "10.0", "abc"}, e \in {Undefined, "2.0"},
        f \in {"1.0"}, c \in {Undefined, "98.8"}}

MetricsResponses == Errors \cup {Resolved(b) : b \in MeasureBodies \cup {Null}}

\* history values as strings of every kind: absent, whole, decimal, empty, text
WideMeasureBodies ==
    {[measures |-> [tests |-> t, test_errors |-> e, test_failures |-> f, coverage |-> c]] :
        t \in {Undefined, "10", "10.0", "", "abc", "unknown"},
        e \in {Undefined, "2", "2.0", "abc"},
        f \in {Undefined, "1", "1.0"}, c \in {"98.8"}}

\* the response object with the measures in its body, as coverageObject has them
WrappedMeasureBodies ==
    {[body |-> b] : b \in {m \in WideMeasureBodies :
                              /\ m.measures.tests = "10.0"
                              /\ m.measures.test_errors = "2.0"
                              /\ m.measures.test_failures = "1.0"}}

WideMetricsResponses == {Resolved(b) : b \in WideMeasureBodies \cup WrappedMeasureBodies}

-----------------------------------------------------------------------------
(* Construction *)

DEFAULT_GIT_APP_NAME == "Screwdriver Sonar PR Checks"

\* the configurations an adapter is constructed with, after joi's defaults
Configs ==
    {[sdApiUrl |-> "https://api.screwdriver.cd", sdUiUrl |-> "https://cd.screwdriver.cd",
      sonarHost |-> "https://sonar.screwdriver.cd", adminToken |-> "faketoken",
      sonarEnterprise |-> e, sonarGitAppName |-> DEFAULT_GIT_APP_NAME] : e \in BOOLEAN}

NewLine == "\n"

\* the lines a template file is made of
TemplateLines ==
    {"h=$SD_SONAR_HOST", "u=$SD_UI_URL", "e=$SD_SONAR_ENTERPRISE", "scan",
     "scan || true; exit 0"}

MaxLines == 3

\* commands.txt, read and trimmed: its lines separated by line feeds
FileOf(t) == Join(t, NewLine)

Templates ==
    {FileOf(t) : t \in UNION {[1..n -> TemplateLines] : n \in 1..MaxLines}}

DefaultCommands ==
    FileOf(<<"h=$SD_SONAR_HOST", "u=$SD_UI_URL", "e=$SD_SONAR_ENTERPRISE", "scan">>)

\* the suffix put on the first line
uploadCommandsSuffixFirst(commands, c) ==
    LET lines == Split(ReplaceFirst(ReplaceFirst(ReplaceFirst(commands,
                           "$SD_SONAR_HOST", c.sonarHost),
                           "$SD_UI_URL", c.sdUiUrl),
                           "$SD_SONAR_ENTERPRISE", BoolTpl(c.sonarEnterprise)),
                       NewLine)
    IN  [lines EXCEPT ![1] = @ \o " || true"]

\* this.uploadCommands as the constructor leaves it
uploadCommandsOf(commands, c) ==
    LET lines == Split(ReplaceFirst(ReplaceFirst(ReplaceFirst(commands,
                           "$SD_SONAR_HOST", c.sonarHost),
                           "$SD_UI_URL", c.sdUiUrl),
                           "$SD_SONAR_ENTERPRISE", BoolTpl(c.sonarEnterprise)),
                       NewLine)
    IN  [lines EXCEPT ![Len(lines)] = @ \o " || true"]

\* the constructor stores the configuration in the module's variables
Construct(c) ==
    /\ config = c
    /\ sdCoverageAuthUrl = c.sdApiUrl \o "/v4/coverage/token"
    /\ adminToken = c.adminToken
    /\ sonarHost = c.sonarHost
    /\ sonarEnterprise = c.sonarEnterprise
    /\ sonarGitAppName = c.sonarGitAppName
    /\ uploadCommands = uploadCommandsOf(COMMANDS, c)

NoResult == [status |-> "pending", value |-> Undefined]

\* a Sonar server that holds nothing yet
EmptyServer == [projects |-> {}, users |-> {}, bindings |-> {}]

Idle ==
    /\ op = "none"
    /\ pc = "idle"
    /\ args = <<>>
    /\ projectData = <<>>
    /\ password = Undefined
    /\ requests = <<>>
    /\ loggerError = <<>>
    /\ loggerInfo = <<>>
    /\ infoObject = <<>>
    /\ result = NoResult
    /\ calls = <<>>
    /\ server = EmptyServer
    /\ returned = <<>>

Init ==
    /\ COMMANDS = DefaultCommands
    /\ \E c \in Configs : Construct(c)
    /\ Idle

-----------------------------------------------------------------------------
(* getAccessToken *)

\* the request objects getAccessToken is called with
AccessTokenArgs ==
    [scope : {Undefined, "job"},
     username : {Undefined, "user-pipeline-123"},
     projectKey : {Undefined, "pipeline:123"},
     projectName : {Undefined, "d2lam/mytest", "undefined:main"},
     jobName : {"main"},
     pipelineName : {Undefined, "d2lam/mytest"},
     buildCredentials : [jobId : {"1"}, pipelineId : {"123"}, prParentJobId : {"2"}]]

\* the caller's descriptor is incomplete or stale
NeedsProjectData(a) ==
    \/ ~Truthy(a.username)
    \/ ~Truthy(a.projectKey)
    \/ ~Truthy(a.projectName)
    \/ Includes(a.projectName, "undefined")

\* the descriptor _getAccessToken works with
accessTokenProjectData(a) ==
    IF NeedsProjectData(a)
    THEN getProjectData([enterpriseEnabled |-> sonarEnterprise,
                         jobId |-> a.buildCredentials.jobId,
                         jobName |-> a.jobName,
                         prParentJobId |-> a.buildCredentials.prParentJobId,
                         pipelineId |-> a.buildCredentials.pipelineId,
                         pipelineName |-> a.pipelineName,
                         scope |-> a.scope,
                         projectKey |-> a.projectKey,
                         prNum |-> Undefined])
    ELSE [username |-> a.username, projectKey |-> a.projectKey,
          projectName |-> a.projectName]

Reject(message) ==
    /\ pc' = "rejected"
    /\ result' = [status |-> "rejected", value |-> message]

\* _getAccessToken up to the first request
getAccessToken(a) ==
    /\ pc = "idle"
    /\ op' = "getAccessToken"
    /\ args' = a
    /\ projectData' = accessTokenProjectData(a)
    /\ password' = uuidv4(1)
    /\ pc' = "createProject"
    /\ requests' = Append(requests, createProject(projectData'.projectKey))
    /\ UNCHANGED <<moduleVars, concurrentVars, loggerError, loggerInfo, infoObject, result>>

\* the requests made by one helper, in their order
RequestsOfCaller(caller) ==
    SelectSeq(requests, LAMBDA req : req.caller = caller)

\* mutant: configureGitApp is started but not returned to the chain, which
\* goes on to createUser at once
createProjectSettledNoWait(r) ==
    /\ pc = "createProject"
    /\ IF r.settled = "resolved" \/ AlreadyExists(r)
       THEN /\ pc' = "createUser"
            /\ requests' = Settle(r) \o <<getBinding(projectData.projectKey),
                                          createUser(projectData.username, password)>>
            /\ result' = result
       ELSE /\ requests' = Settle(r)
            /\ Reject(createProjectError(projectData.projectKey, r))
    /\ UNCHANGED <<moduleVars, concurrentVars, op, args, projectData, password, loggerError, loggerInfo,
                   infoObject>>

\* createProject settles; on success configureGitApp asks for the binding
createProjectSettled(r) ==
    /\ pc = "createProject"
    /\ IF CreateSucceeds(r)
       THEN /\ pc' = "getBinding"
            /\ requests' = Append(Settle(r), getBinding(projectData.projectKey))
            /\ result' = result
       ELSE /\ requests' = Settle(r)
            /\ Reject(createProjectError(projectData.projectKey, r))
    /\ UNCHANGED <<moduleVars, concurrentVars, op, args, projectData, password, loggerError, loggerInfo,
                   infoObject>>

\* get_binding settles; a missing binding is added in enterprise mode, and
\* otherwise createUser follows
getBindingSettled(r) ==
    /\ pc = "getBinding"
    /\ IF r.settled = "resolved"
       THEN /\ pc' = "createUser"
            /\ requests' = Append(Settle(r), createUser(projectData.username, password))
            /\ loggerInfo' = loggerInfo
       ELSE /\ loggerInfo' = Append(loggerInfo, bindingInfoMessage(projectData.projectKey))
            /\ IF AddsBinding(projectData.projectName)
               THEN /\ pc' = "setBinding"
                    /\ requests' = Append(Settle(r),
                            setGithubBinding(projectData.projectKey, projectData.projectName))
               ELSE /\ pc' = "createUser"
                    /\ requests' = Append(Settle(r),
                            createUser(projectData.username, password))
    /\ UNCHANGED <<moduleVars, concurrentVars, op, args, projectData, password, loggerError, infoObject,
                   result>>

\* mutant: a failure to add the binding is logged and thrown
setBindingSettledThrows(r) ==
    /\ pc = "setBinding"
    /\ loggerError' = IF r.settled = "rejected"
                      THEN Append(loggerError,
                                  configureGitAppError(projectData.projectKey, r))
                      ELSE loggerError
    /\ IF r.settled = "rejected"
       THEN /\ requests' = Settle(r)
            /\ Reject(configureGitAppError(projectData.projectKey, r))
       ELSE /\ pc' = "createUser"
            /\ requests' = Append(Settle(r), createUser(projectData.username, password))
            /\ result' = result
    /\ UNCHANGED <<moduleVars, concurrentVars, op, args, projectData, password, loggerInfo, infoObject>>

\* set_github_binding settles; a failure is logged and createUser follows
setBindingSettled(r) ==
    /\ pc = "setBinding"
    /\ loggerError' = IF r.settled = "rejected"
                      THEN Append(loggerError,
                                  configureGitAppError(projectData.projectKey, r))
                      ELSE loggerError
    /\ pc' = "createUser"
    /\ requests' = Append(Settle(r), createUser(projectData.username, password))
    /\ UNCHANGED <<moduleVars, concurrentVars, op, args, projectData, password, loggerInfo, infoObject,
                   result>>

\* a failed createUser is tried once more before the chain gives up
createUserSettledRetries(r) ==
    /\ pc = "createUser"
    /\ IF CreateSucceeds(r)
       THEN /\ pc' = "grantUserPermission"
            /\ requests' = Append(Settle(r),
                    grantUserPermission(projectData.username, projectData.projectKey))
            /\ result' = result
       ELSE IF Len(RequestsOfCaller("createUser")) < 2
            THEN /\ pc' = "createUser"
                 /\ requests' = Append(Settle(r),
                                       createUser(projectData.username, password))
                 /\ result' = result
            ELSE /\ requests' = Settle(r)
                 /\ Reject(createUserError(projectData.username, r))
    /\ UNCHANGED <<moduleVars, concurrentVars, op, args, projectData, password,
                   loggerError, loggerInfo, infoObject>>

\* createUser settles; on success grantUserPermission follows
createUserSettled(r) ==
    /\ pc = "createUser"
    /\ IF CreateSucceeds(r)
       THEN /\ pc' = "grantUserPermission"
            /\ requests' = Append(Settle(r),
                    grantUserPermission(projectData.username, projectData.projectKey))
            /\ result' = result
       ELSE /\ requests' = Settle(r)
            /\ Reject(createUserError(projectData.username, r))
    /\ UNCHANGED <<moduleVars, concurrentVars, op, args, projectData, password, loggerError, loggerInfo,
                   infoObject>>

\* mutant: the catch of grantUserPermission does not throw, generateToken
\* follows whatever the response
grantUserPermissionSettledGoesOn(r) ==
    /\ pc = "grantUserPermission"
    /\ pc' = "generateToken"
    /\ requests' = Append(Settle(r), generateToken(projectData.username, uuidv4(2)))
    /\ UNCHANGED <<moduleVars, concurrentVars, op, args, projectData, password, loggerError, loggerInfo,
                   infoObject, result>>

\* grantUserPermission settles; on success generateToken follows
grantUserPermissionSettled(r) ==
    /\ pc = "grantUserPermission"
    /\ IF r.settled = "resolved"
       THEN /\ pc' = "generateToken"
            /\ requests' = Append(Settle(r),
                    generateToken(projectData.username, uuidv4(2)))
            /\ result' = result
       ELSE /\ requests' = Settle(r)
            /\ Reject(grantUserPermissionError(projectData.username, r))
    /\ UNCHANGED <<moduleVars, concurrentVars, op, args, projectData, password, loggerError, loggerInfo,
                   infoObject>>

\* generateToken settles; the chain ends with res.token, and reading the
\* token of a null response is a TypeError
generateTokenSettled(r) ==
    /\ pc = "generateToken"
    /\ requests' = Settle(r)
    /\ IF r.settled = "resolved"
       THEN IF r.body = Null
            THEN Reject("TypeError: Cannot read property 'token' of null")
            ELSE /\ pc' = "resolved"
                 /\ result' = [status |-> "resolved", value |-> r.body.token]
       ELSE Reject(generateTokenError(projectData.username, r))
    /\ UNCHANGED <<moduleVars, concurrentVars, op, args, projectData, password, loggerError, loggerInfo,
                   infoObject>>

-----------------------------------------------------------------------------
(* getInfo *)

\* the request objects getInfo is called with
InfoArgs ==
    [scope : {Undefined, "job", "pipeline"},
     jobId : {Undefined, "1"},
     jobName : {Undefined, "PR-5:main"},
     pipelineId : {Undefined, "123"},
     pipelineName : {Undefined, "d2lam/mytest"},
     prNum : {Undefined, "5"},
     prParentJobId : {Undefined, "2"},
     projectKey : {Undefined, "job:1"},
     startTime : {Undefined, "2017-10-19T13:00:00.123Z"},
     endTime : {Undefined, "2017-10-19T15:00:00.234Z"}]

\* the configuration _getInfo hands to getProjectData
infoProjectConfig(a) ==
    [enterpriseEnabled |-> sonarEnterprise,
     jobId |-> a.jobId,
     pipelineId |-> a.pipelineId,
     scope |-> a.scope,
     pipelineName |-> a.pipelineName,
     jobName |-> a.jobName,
     projectKey |-> a.projectKey,
     prParentJobId |-> a.prParentJobId,
     prNum |-> a.prNum]

envVars(d) ==
    [SD_SONAR_AUTH_URL |->
        sdCoverageAuthUrl \o "?projectKey=" \o Tpl(d.projectKey)
            \o "&projectName=" \o Tpl(d.projectName)
            \o "&username=" \o Tpl(d.username)
            \o "&scope=" \o Tpl(d.projectScope),
     SD_SONAR_HOST |-> sonarHost,
     SD_SONAR_ENTERPRISE |-> sonarEnterprise,
     SD_SONAR_PROJECT_KEY |-> d.projectKey,
     SD_SONAR_PROJECT_NAME |-> d.projectName]

\* the metrics are looked up only when the steps are finished
WantsMetrics(d, a) == Truthy(d.projectKey) /\ Truthy(a.startTime) /\ Truthy(a.endTime)

projectUrl(projectKey, prNum) ==
    config.sonarHost \o "/dashboard?id=" \o encodeURIComponent(Tpl(projectKey))
        \o (IF sonarEnterprise /\ Truthy(prNum) THEN "&pullRequest=" \o prNum ELSE "")

\* _getInfo up to its return: getProjectData, the envVars, and the metrics
\* request when the times are given
getInfo(a) ==
    /\ pc = "idle"
    /\ op' = "getInfo"
    /\ args' = a
    /\ IF GetProjectDataThrows(infoProjectConfig(a))
       THEN /\ pc' = "thrown"
            /\ result' = [status |-> "thrown",
                          value |-> "TypeError: Cannot read property 'match' of undefined"]
            /\ UNCHANGED <<projectData, infoObject, requests>>
       ELSE /\ projectData' = getProjectData(infoProjectConfig(a))
            /\ infoObject' = [envVars |-> envVars(projectData')]
            /\ IF WantsMetrics(projectData', a)
               THEN /\ pc' = "getMetrics"
                    /\ \E timezoneOffset \in TimezoneOffsets :
                         requests' = Append(requests,
                            getMetrics(projectData'.projectKey, a.startTime, a.endTime,
                                       a.prNum, sonarEnterprise, timezoneOffset))
                    /\ result' = result
               ELSE /\ pc' = "resolved"
                    /\ result' = [status |-> "resolved", value |-> infoObject']
                    /\ requests' = requests
    /\ UNCHANGED <<moduleVars, concurrentVars, password, loggerError, loggerInfo>>

\* mutant: getMetrics logs a failure and throws it again
getMetricsSettledRethrows(r) ==
    /\ pc = "getMetrics"
    /\ requests' = Settle(r)
    /\ loggerError' = IF r.settled = "rejected" /\ LogsMetricsFailure(r)
                      THEN Append(loggerError, metricsError(projectData.projectKey, r))
                      ELSE loggerError
    /\ IF r.settled = "rejected" /\ LogsMetricsFailure(r)
       THEN /\ Reject(r.message)
            /\ infoObject' = infoObject
       ELSE /\ LET metrics == IF r.settled = "resolved" THEN metricsOf(r.body)
                              ELSE NotAvailable
               IN  infoObject' = [envVars |-> infoObject.envVars,
                                  coverage |-> metrics.coverage,
                                  tests |-> metrics.tests,
                                  projectUrl |-> projectUrl(projectData.projectKey,
                                                            args.prNum)]
            /\ pc' = "resolved"
            /\ result' = [status |-> "resolved", value |-> infoObject']
    /\ UNCHANGED <<moduleVars, concurrentVars, op, args, projectData, password, loggerInfo>>

\* the metrics request settles: getMetrics turns the response into the two
\* strings and _getInfo adds them and the dashboard URL to infoObject
getMetricsSettled(r) ==
    /\ pc = "getMetrics"
    /\ requests' = Settle(r)
    /\ loggerError' = IF r.settled = "rejected" /\ LogsMetricsFailure(r)
                      THEN Append(loggerError, metricsError(projectData.projectKey, r))
                      ELSE loggerError
    /\ LET metrics == IF r.settled = "resolved" THEN metricsOf(r.body) ELSE NotAvailable
       IN  infoObject' = [envVars |-> infoObject.envVars,
                          coverage |-> metrics.coverage,
                          tests |-> metrics.tests,
                          projectUrl |-> projectUrl(projectData.projectKey, args.prNum)]
    /\ pc' = "resolved"
    /\ result' = [status |-> "resolved", value |-> infoObject']
    /\ UNCHANGED <<moduleVars, concurrentVars, op, args, projectData, password, loggerInfo>>

-----------------------------------------------------------------------------

(* The resolver on its own *)

\* the identities getProjectData is called with
ResolverArgs ==
    [scope : {Undefined, "undefined", "job", "pipeline", "repo"},
     jobId : {Undefined, "1"},
     jobName : {Undefined, "main", "PR-5:main", "PR-5"},
     pipelineId : {Undefined, "123"},
     pipelineName : {Undefined, "d2lam/mytest"},
     projectKey : {Undefined, "job:1", "pipeline:123", "job", "job:1:2"},
     prNum : {Undefined, "5"},
     prParentJobId : {Undefined, "2"}]

InitResolver ==
    /\ COMMANDS = DefaultCommands
    /\ \E c \in Configs : Construct(c)
    /\ op = "none"
    /\ pc = "idle"
    /\ args \in ResolverArgs
    /\ projectData = <<>>
    /\ password = Undefined
    /\ requests = <<>>
    /\ loggerError = <<>>
    /\ loggerInfo = <<>>
    /\ infoObject = <<>>
    /\ result = NoResult
    /\ calls = <<>>
    /\ server = EmptyServer
    /\ returned = <<>>

\* one call of getProjectData with the identity of the initial state
resolve ==
    /\ pc = "idle"
    /\ op' = "getProjectData"
    /\ LET c == [enterpriseEnabled |-> sonarEnterprise] @@ args IN
       IF GetProjectDataThrows(c)
       THEN /\ pc' = "thrown"
            /\ result' = [status |-> "thrown",
                          value |-> "TypeError: Cannot read property 'match' of undefined"]
            /\ projectData' = projectData
       ELSE /\ pc' = "resolved"
            /\ projectData' = getProjectData(c)
            /\ result' = [status |-> "resolved", value |-> projectData']
    /\ UNCHANGED <<moduleVars, concurrentVars, args, password, requests, loggerError, loggerInfo,
                   infoObject>>

NextResolver == resolve

SpecResolver == InitResolver /\ [][NextResolver]_vars

-----------------------------------------------------------------------------
(* getUploadCoverageCmd *)

\* mutant: the suffix is put on the stored list at each call
getUploadCoverageCmdSuffixes ==
    /\ pc = "idle"
    /\ op' = "getUploadCoverageCmd"
    /\ pc' = "resolved"
    /\ uploadCommands' = IF returned = <<>> THEN uploadCommands
                         ELSE [uploadCommands EXCEPT ![Len(uploadCommands)] = @ \o " || true"]
    /\ result' = [status |-> "resolved", value |-> Join(uploadCommands', " && ")]
    /\ returned' = Append(returned, result'.value)
    /\ UNCHANGED <<adminToken, sonarHost, sdCoverageAuthUrl, sonarEnterprise, sonarGitAppName,
                   config, COMMANDS, calls, server, args, projectData, password, requests,
                   loggerError, loggerInfo, infoObject>>

getUploadCoverageCmd ==
    /\ pc = "idle"
    /\ op' = "getUploadCoverageCmd"
    /\ pc' = "resolved"
    /\ result' = [status |-> "resolved", value |-> Join(uploadCommands, " && ")]
    /\ returned' = Append(returned, result'.value)
    /\ UNCHANGED <<moduleVars, calls, server, args, projectData, password, requests,
                   loggerError, loggerInfo, infoObject>>

\* the adapter constructed over each template file
InitUpload ==
    /\ COMMANDS \in Templates
    /\ \E c \in Configs : Construct(c)
    /\ Idle

NextUpload == getUploadCoverageCmd

SpecUpload == InitUpload /\ [][NextUpload]_vars

-----------------------------------------------------------------------------
(* getAccessToken calls side by side, and the server they talk to *)

NumCalls == 2

\* the value of a parameter of the query of url
QueryParam(url, name) ==
    LET q == IndexOfFrom(url, "?" \o name \o "=", 1)
        i == IF q # 0 THEN q ELSE IndexOfFrom(url, "&" \o name \o "=", 1)
        from == i + Len(name) + 2
        amp == IndexOfFrom(url, "&", from)
    IN  IF i = 0 THEN Undefined
        ELSE SubSeq(url, from, IF amp = 0 THEN Len(url) ELSE amp - 1)

\* the server answers a request: a project or a user that exists already is
\* refused with 400 'already exists', a binding is found or not, a permission
\* is granted however often, a token is made under the name asked for
ServerResponse(srv, req) ==
    CASE req.caller = "createProject" ->
            IF QueryParam(req.url, "project") \in srv.projects
            THEN Rejected(400, "Could not create Project, key already exists: "
                                   \o QueryParam(req.url, "project"))
            ELSE Resolved(Null)
      [] req.caller = "createUser" ->
            IF QueryParam(req.url, "login") \in srv.users
            THEN Rejected(400, "An active user with login '"
                                   \o QueryParam(req.url, "login") \o "' already exists")
            ELSE Resolved(Null)
      [] req.caller = "configureGitApp" /\ req.method = "GET" ->
            IF QueryParam(req.url, "project") \in srv.bindings
            THEN Resolved(Null)
            ELSE Rejected(404, "Project '" \o QueryParam(req.url, "project")
                                   \o "' is not bound to any DevOps Platform")
      [] req.caller = "configureGitApp" /\ req.method = "POST" -> Resolved(Null)
      [] req.caller = "grantUserPermission" -> Resolved(Null)
      [] req.caller = "generateToken" ->
            Resolved([token |-> "token-" \o QueryParam(req.url, "name")])

\* what the server holds after it answered
ServerAfter(srv, req) ==
    CASE req.caller = "createProject" ->
            [srv EXCEPT !.projects = @ \cup {QueryParam(req.url, "project")}]
      [] req.caller = "createUser" ->
            [srv EXCEPT !.users = @ \cup {QueryParam(req.url, "login")}]
      [] req.caller = "configureGitApp" /\ req.method = "POST" ->
            [srv EXCEPT !.bindings = @ \cup {QueryParam(req.url, "project")}]
      [] OTHER -> srv

\* the build both calls are made for
ConcurrentArgs ==
    {a \in AccessTokenArgs :
        /\ a.scope = Undefined
        /\ a.pipelineName = "d2lam/mytest"
        /\ a.username = Undefined <=> a.projectKey = Undefined
        /\ a.projectName \in {Undefined, "d2lam/mytest"}}

NoCall ==
    [pc |-> "idle", projectData |-> <<>>, password |-> Undefined, requests |-> <<>>,
     loggerError |-> <<>>, loggerInfo |-> <<>>, result |-> NoResult]

InitConcurrent ==
    /\ COMMANDS = DefaultCommands
    /\ \E c \in Configs : Construct(c)
    /\ op = "getAccessToken"
    /\ pc = "idle"
    /\ args \in ConcurrentArgs
    /\ projectData = <<>>
    /\ password = Undefined
    /\ requests = <<>>
    /\ loggerError = <<>>
    /\ loggerInfo = <<>>
    /\ infoObject = <<>>
    /\ result = NoResult
    /\ calls = [i \in 1..NumCalls |-> NoCall]
    /\ server = EmptyServer
    /\ returned = <<>>

\* call i of _getAccessToken up to its first request
callGetAccessToken(i) ==
    /\ calls[i].pc = "idle"
    /\ LET d == accessTokenProjectData(args) IN
       calls' = [calls EXCEPT ![i] =
                    [@ EXCEPT !.pc = "createProject",
                              !.projectData = d,
                              !.password = uuidv4(2 * i - 1),
                              !.requests = <<createProject(d.projectKey)>>]]
    /\ UNCHANGED <<moduleVars, server, returned, op, pc, args, projectData, password,
                   requests, loggerError, loggerInfo, infoObject, result>>

\* the call c after its request in flight settled with r: the handler of
\* the step runs and the next request, if any, goes out
AfterSettled(c, r, tokenName) ==
    LET d == c.projectData
        settled == [c.requests EXCEPT ![Len(c.requests)].response = r]
        goesOn(step, req) == [c EXCEPT !.pc = step, !.requests = Append(settled, req)]
        rejects(message) ==
            [c EXCEPT !.pc = "rejected", !.requests = settled,
                      !.result = [status |-> "rejected", value |-> message]]
        toCreateUser == goesOn("createUser", createUser(d.username, c.password))
    IN  CASE c.pc = "createProject" ->
                IF CreateSucceeds(r)
                THEN goesOn("getBinding", getBinding(d.projectKey))
                ELSE rejects(createProjectError(d.projectKey, r))
          [] c.pc = "getBinding" ->
                IF r.settled = "resolved" THEN toCreateUser
                ELSE [(IF AddsBinding(d.projectName)
                       THEN goesOn("setBinding",
                                   setGithubBinding(d.projectKey, d.projectName))
                       ELSE toCreateUser)
                      EXCEPT !.loggerInfo = Append(@, bindingInfoMessage(d.projectKey))]
          [] c.pc = "setBinding" ->
                IF r.settled = "resolved" THEN toCreateUser
                ELSE [toCreateUser EXCEPT
                        !.loggerError = Append(@, configureGitAppError(d.projectKey, r))]
          [] c.pc = "createUser" ->
                IF CreateSucceeds(r)
                THEN goesOn("grantUserPermission",
                            grantUserPermission(d.username, d.projectKey))
                ELSE rejects(createUserError(d.username, r))
          [] c.pc = "grantUserPermission" ->
                IF r.settled = "resolved"
                THEN goesOn("generateToken", generateToken(d.username, tokenName))
                ELSE rejects(grantUserPermissionError(d.username, r))
          [] c.pc = "generateToken" ->
                IF r.settled = "resolved"
                THEN IF r.body = Null
                     THEN rejects("TypeError: Cannot read property 'token' of null")
                     ELSE [c EXCEPT !.pc = "resolved", !.requests = settled,
                                    !.result = [status |-> "resolved",
                                                value |-> r.body.token]]
                ELSE rejects(generateTokenError(d.username, r))

\* the server answers the request call i has in flight, and the handler of
\* call i runs
callSettled(i) ==
    /\ calls[i].pc \in {"createProject", "getBinding", "setBinding", "createUser",
                        "grantUserPermission", "generateToken"}
    /\ LET req == Last(calls[i].requests) IN
       /\ calls' = [calls EXCEPT ![i] =
                       AfterSettled(@, ServerResponse(server, req), uuidv4(2 * i))]
       /\ server' = ServerAfter(server, req)
    /\ UNCHANGED <<moduleVars, returned, op, pc, args, projectData, password, requests,
                   loggerError, loggerInfo, infoObject, result>>

NextConcurrent ==
    \/ \E i \in 1..NumCalls : callGetAccessToken(i)
    \/ \E i \in 1..NumCalls : callSettled(i)

SpecConcurrent == InitConcurrent /\ [][NextConcurrent]_vars

-----------------------------------------------------------------------------
(* getAccessToken over the descriptors a caller can hand in *)

\* descriptors that are complete or not, with and without 'undefined' in
\* each of their fields
DescriptorArgs ==
    [scope : {Undefined},
     username : {Undefined, "user-pipeline-123", "user-pipeline-undefined"},
     projectKey : {Undefined, "pipeline:123", "pipeline:undefined"},
     projectName : {Undefined, "d2lam/mytest", "undefined:main"},
     jobName : {"main"},
     pipelineName : {"d2lam/mytest"},
     buildCredentials : [jobId : {"1"}, pipelineId : {"123"}, prParentJobId : {"2"}]]

\* a server on which every step succeeds, with the binding there or not
Served(caller) ==
    CASE caller = "getBinding" -> {Resolved(Null), Rejected(404, "Not bound")}
      [] caller = "generateToken" -> {Resolved([token |-> "accesstoken"])}
      [] OTHER -> {Resolved(Null)}

NextDescriptor ==
    \/ \E a \in DescriptorArgs : getAccessToken(a)
    \/ \E r \in Served("createProject") : createProjectSettled(r)
    \/ \E r \in Served("getBinding") : getBindingSettled(r)
    \/ \E r \in Served("setBinding") : setBindingSettled(r)
    \/ \E r \in Served("createUser") : createUserSettled(r)
    \/ \E r \in Served("grantUserPermission") : grantUserPermissionSettled(r)
    \/ \E r \in Served("generateToken") : generateTokenSettled(r)

SpecDescriptor == Init /\ [][NextDescriptor]_vars

-----------------------------------------------------------------------------
(* getInfo over the measures a server can answer with *)

\* a finished job with its times
MetricsInfoArgs ==
    {a \in InfoArgs :
        /\ a.scope = Undefined
        /\ a.projectKey = Undefined
        /\ a.jobId = "1"
        /\ a.jobName = "PR-5:main"
        /\ a.pipelineId = "123"
        /\ a.pipelineName = "d2lam/mytest"
        /\ a.prNum = Undefined
        /\ a.prParentJobId = "2"
        /\ a.startTime # Undefined
        /\ a.endTime # Undefined}

NextMetrics ==
    \/ \E a \in MetricsInfoArgs : getInfo(a)
    \/ \E r \in WideMetricsResponses : getMetricsSettled(r)

SpecMetrics == Init /\ [][NextMetrics]_vars

-----------------------------------------------------------------------------
(* getAccessToken alone, over every response of every step *)

\* builds with and without a descriptor and with and without a pipeline name
ChainArgs ==
    {a \in AccessTokenArgs :
        /\ a.scope = Undefined
        /\ a.username = Undefined <=> a.projectKey = Undefined
        /\ a.projectName \in {Undefined, "d2lam/mytest"}}

NextChain ==
    \/ \E a \in ChainArgs : getAccessToken(a)
    \/ \E r \in Responses("createProject") : createProjectSettled(r)
    \/ \E r \in Responses("configureGitApp") : getBindingSettled(r)
    \/ \E r \in Responses("configureGitApp") : setBindingSettled(r)
    \/ \E r \in Responses("createUser") : createUserSettled(r)
    \/ \E r \in Responses("grantUserPermission") : grantUserPermissionSettled(r)
    \/ \E r \in Responses("generateToken") : generateTokenSettled(r)

SpecChain == Init /\ [][NextChain]_vars

\* the request in flight settles, with whichever response
requestSettles ==
    \/ \E r \in Responses("createProject") : createProjectSettled(r)
    \/ \E r \in Responses("configureGitApp") : getBindingSettled(r)
    \/ \E r \in Responses("configureGitApp") : setBindingSettled(r)
    \/ \E r \in Responses("createUser") : createUserSettled(r)
    \/ \E r \in Responses("grantUserPermission") : grantUserPermissionSettled(r)
    \/ \E r \in Responses("generateToken") : generateTokenSettled(r)

\* the same calls, when no request stays pending for ever: the handler of a
\* step runs once its request has settled
SpecChainFair == Init /\ [][NextChain]_vars /\ WF_vars(requestSettles)

-----------------------------------------------------------------------------
(* a second adapter *)

\* the configurations of another adapter of the same process
OtherConfigs ==
    {[sdApiUrl |-> "https://api.other.cd", sdUiUrl |-> "https://cd.other.cd",
      sonarHost |-> "https://sonar.other.cd", adminToken |-> "othertoken",
      sonarEnterprise |-> e, sonarGitAppName |-> "Other PR Checks"] : e \in BOOLEAN}

\* new CoverageSonar(c) for another adapter: its constructor assigns the
\* variables of the module; this.config and this.uploadCommands of the
\* adapter that is called are fields of that adapter and stay
construct(c) ==
    /\ sdCoverageAuthUrl' = c.sdApiUrl \o "/v4/coverage/token"
    /\ adminToken' = c.adminToken
    /\ sonarHost' = c.sonarHost
    /\ sonarEnterprise' = c.sonarEnterprise
    /\ sonarGitAppName' = c.sonarGitAppName
    /\ UNCHANGED <<config, COMMANDS, uploadCommands, concurrentVars, op, pc, args,
                   projectData, password, requests, loggerError, loggerInfo,
                   infoObject, result>>

\* the builds getInfo is asked about while another adapter may be constructed
MultiInfoArgs ==
    {a \in InfoArgs :
        /\ a.scope = Undefined
        /\ a.projectKey = Undefined
        /\ a.jobId = "1"
        /\ a.jobName = "PR-5:main"
        /\ a.pipelineId = "123"
        /\ a.pipelineName = "d2lam/mytest"
        /\ a.prParentJobId = "2"}

NextMulti ==
    \/ \E c \in OtherConfigs : construct(c)
    \/ \E a \in MultiInfoArgs : getInfo(a)
    \/ \E r \in MetricsResponses : getMetricsSettled(r)
    \/ getUploadCoverageCmd

SpecMulti == Init /\ [][NextMulti]_vars

-----------------------------------------------------------------------------
(* getAccessToken with the descriptor of its own build or of another *)

\* build 1 of pipeline 123 asks, with no descriptor, with its own, or with
\* the key, the name and the user of a project of another pipeline
OwnerArgs ==
    [scope : {Undefined, "job", "pipeline"},
     username : {Undefined, "user-pipeline-123", "user-pipeline-999", "user-job-1"},
     projectKey : {Undefined, "pipeline:123", "pipeline:999", "job:1"},
     projectName : {Undefined, "d2lam/mytest", "other/repo"},
     jobName : {"main"},
     pipelineName : {"d2lam/mytest"},
     buildCredentials : [jobId : {"1"}, pipelineId : {"123"}, prParentJobId : {"2"}]]

NextOwner ==
    \/ \E a \in OwnerArgs : getAccessToken(a)
    \/ \E r \in Served("createProject") : createProjectSettled(r)
    \/ \E r \in Served("getBinding") : getBindingSettled(r)
    \/ \E r \in Served("setBinding") : setBindingSettled(r)
    \/ \E r \in Served("createUser") : createUserSettled(r)
    \/ \E r \in Served("grantUserPermission") : grantUserPermissionSettled(r)
    \/ \E r \in Served("generateToken") : generateTokenSettled(r)

SpecOwner == Init /\ [][NextOwner]_vars

-----------------------------------------------------------------------------
(* getInfo, then getAccessToken for the same build *)

\* the builds, with every scope annotation and with and without a PR
SameBuildArgs ==
    {a \in InfoArgs :
        /\ a.projectKey = Undefined
        /\ a.jobId = "1"
        /\ a.jobName = "PR-5:main"
        /\ a.pipelineId = "123"
        /\ a.pipelineName = "d2lam/mytest"
        /\ a.startTime = Undefined
        /\ a.endTime = Undefined}

\* the request object of getAccessToken for the build getInfo was asked
\* about: the same identity, and no descriptor
AccessTokenArgsOf(a) ==
    [scope |-> a.scope, username |-> Undefined, projectKey |-> Undefined,
     projectName |-> Undefined, jobName |-> a.jobName, pipelineName |-> a.pipelineName,
     buildCredentials |-> [jobId |-> a.jobId, pipelineId |-> a.pipelineId,
                           prParentJobId |-> a.prParentJobId]]

\* the promise of getInfo was delivered and the adapter takes the next call
again ==
    /\ op = "getInfo"
    /\ pc = "resolved"
    /\ pc' = "idle"
    /\ UNCHANGED <<moduleVars, concurrentVars, op, args, projectData, password,
                   requests, loggerError, loggerInfo, infoObject, result>>

getAccessTokenSameBuild ==
    /\ op = "getInfo"
    /\ getAccessToken(AccessTokenArgsOf(args))

NextSameBuild ==
    \/ \E a \in SameBuildArgs : getInfo(a)
    \/ again
    \/ getAccessTokenSameBuild
    \/ \E r \in Served("createProject") : createProjectSettled(r)
    \/ \E r \in Served("getBinding") : getBindingSettled(r)
    \/ \E r \in Served("setBinding") : setBindingSettled(r)
    \/ \E r \in Served("createUser") : createUserSettled(r)
    \/ \E r \in Served("grantUserPermission") : grantUserPermissionSettled(r)
    \/ \E r \in Served("generateToken") : generateTokenSettled(r)

SpecSameBuild == Init /\ [][NextSameBuild]_vars

-----------------------------------------------------------------------------
(* getInfo alone, over every build and every response *)

NextInfo ==
    \/ \E a \in InfoArgs : getInfo(a)
    \/ \E r \in MetricsResponses : getMetricsSettled(r)

SpecInfo == Init /\ [][NextInfo]_vars

-----------------------------------------------------------------------------
(* call after call on one adapter *)

\* a template like the scanner script: a line that ends its own command with
\* '|| true' stands before the last line
ScannerCommands == FileOf(<<"h=$SD_SONAR_HOST", "scan || true; exit 0", "scan">>)

MaxCalls == 2

InitRepeat ==
    /\ COMMANDS \in {DefaultCommands, ScannerCommands}
    /\ \E c \in Configs : Construct(c)
    /\ Idle

\* the promise of the last operation settled and the adapter takes the next
\* call
nextCall ==
    /\ pc \in {"resolved", "rejected", "thrown"}
    /\ pc' = "idle"
    /\ UNCHANGED <<moduleVars, concurrentVars, op, args, projectData, password,
                   requests, loggerError, loggerInfo, infoObject, result>>

\* the build the other operations are called for
RepeatArgs == {a \in SameBuildArgs : a.scope = Undefined /\ a.prNum = Undefined
                                     /\ a.prParentJobId = Undefined}

\* getUploadCoverageCmd up to MaxCalls times, before, between and after one
\* call of each of the other operations
NextRepeat ==
    \/ Len(returned) < MaxCalls /\ getUploadCoverageCmd
    \/ nextCall
    \/ infoObject = <<>> /\ \E a \in RepeatArgs : getInfo(a)
    \/ requests = <<>> /\ \E a \in RepeatArgs : getAccessToken(AccessTokenArgsOf(a))
    \/ \E r \in Served("createProject") : createProjectSettled(r)
    \/ \E r \in Served("getBinding") : getBindingSettled(r)
    \/ \E r \in Served("setBinding") : setBindingSettled(r)
    \/ \E r \in Served("createUser") : createUserSettled(r)
    \/ \E r \in Served("grantUserPermission") : grantUserPermissionSettled(r)
    \/ \E r \in Served("generateToken") : generateTokenSettled(r)
    \/ \E c \in OtherConfigs : construct(c)

SpecRepeat == InitRepeat /\ [][NextRepeat]_vars

-----------------------------------------------------------------------------
(* the three operations, over every response of every request *)

NextOps ==
    \/ NextChain
    \/ \E a \in MultiInfoArgs : getInfo(a)
    \/ \E r \in MetricsResponses : getMetricsSettled(r)
    \/ getUploadCoverageCmd

SpecOps == Init /\ [][NextOps]_vars

-----------------------------------------------------------------------------

Next ==
    \/ \E a \in AccessTokenArgs : getAccessToken(a)
    \/ \E r \in Responses("createProject") : createProjectSettled(r)
    \/ \E r \in Responses("configureGitApp") : getBindingSettled(r)
    \/ \E r \in Responses("configureGitApp") : setBindingSettled(r)
    \/ \E r \in Responses("createUser") : createUserSettled(r)
    \/ \E r \in Responses("grantUserPermission") : grantUserPermissionSettled(r)
    \/ \E r \in Responses("generateToken") : generateTokenSettled(r)
    \/ \E a \in InfoArgs : getInfo(a)
    \/ \E r \in MetricsResponses : getMetricsSettled(r)
    \/ getUploadCoverageCmd

Spec == Init /\ [][Next]_vars

-----------------------------------------------------------------------------
(* What the claims speak of *)

\* the endpoint a request goes to, read from its URL: what stands between
\* '/api/' after the host and the '?' of the query
Endpoint(req) ==
    LET afterScheme == SubSeq(req.url, Len("https://") + 1, Len(req.url))
        slash == IndexOf(afterScheme, "/")
        path == SubSeq(afterScheme, slash, IndexOf(afterScheme, "?") - 1)
    IN  SubSeq(path, Len("/api/") + 1, Len(path))

EndpointsOf(reqs) == [i \in 1..Len(reqs) |-> Endpoint(reqs[i])]

IsPrefix(a, b) == Len(a) <= Len(b) /\ a = SubSeq(b, 1, Len(a))

\* the order of a chain that adds the binding, and of one that does not
ChainWithBinding ==
    <<"projects/create", "alm_settings/get_binding", "alm_settings/set_github_binding",
      "users/create", "permissions/add_user", "user_tokens/generate">>

ChainWithoutBinding ==
    <<"projects/create", "alm_settings/get_binding", "users/create",
      "permissions/add_user", "user_tokens/generate">>

\* a rejection with statusCode 400 whose message contains 'already exists'
SaysAlreadyExists(r) ==
    /\ r.settled = "rejected"
    /\ r.statusCode = 400
    /\ \E i \in 1..Len(r.message) :
          i + 13 <= Len(r.message) /\ SubSeq(r.message, i, i + 13) = "already exists"

\* request i of the call failed hard: a create rejected otherwise than with
\* 'already exists', or a grant or a generate rejected
HardFailure(i) ==
    /\ requests[i].response.settled = "rejected"
    /\ LET e == Endpoint(requests[i])
       IN  \/ e \in {"projects/create", "users/create"}
                /\ ~SaysAlreadyExists(requests[i].response)
           \/ e \in {"permissions/add_user", "user_tokens/generate"}

-----------------------------------------------------------------------------
(* C1 *)

\* C1: in every getAccessToken call the requests are issued one after another
\* in the order create-project, get-binding, (set-github-binding,) create-user,
\* grant-permission, generate-token; no request is issued before the previous
\* one has settled; and grant-permission is issued only after create-project
\* and create-user each resolved or were rejected with 400 'already exists'.
C1_SequentialOrder ==
    op = "getAccessToken" =>
        LET eps == EndpointsOf(requests) IN
        /\ IsPrefix(eps, ChainWithBinding) \/ IsPrefix(eps, ChainWithoutBinding)
        /\ \A i \in 1..(Len(requests) - 1) : requests[i].response.settled # "pending"
        /\ \A g \in 1..Len(requests) :
              eps[g] = "permissions/add_user" =>
                 \A e \in {"projects/create", "users/create"} :
                    \E i \in 1..(g - 1) :
                       /\ eps[i] = e
                       /\ \/ requests[i].response.settled = "resolved"
                          \/ SaysAlreadyExists(requests[i].response)

\* a call that added the binding and came to its end with six requests
C1_Witness ==
    /\ op = "getAccessToken"
    /\ pc = "resolved"
    /\ EndpointsOf(requests) = ChainWithBinding

-----------------------------------------------------------------------------
(* C2 *)

\* C2: a createProject or createUser rejected with statusCode 400 and a
\* message containing 'already exists' is a success: the step that follows a
\* successful create is issued next, and when the generate-token request
\* resolves, the call resolves with the token of that response.
C2_AlreadyExistsIsSuccess ==
    op = "getAccessToken" =>
        LET eps == EndpointsOf(requests) IN
        /\ \A i \in 1..Len(requests) :
              SaysAlreadyExists(requests[i].response) =>
                 /\ eps[i] = "projects/create" =>
                       i < Len(requests) /\ eps[i + 1] = "alm_settings/get_binding"
                 /\ eps[i] = "users/create" =>
                       i < Len(requests) /\ eps[i + 1] = "permissions/add_user"
        /\ \A i \in 1..Len(requests) :
              /\ eps[i] = "user_tokens/generate"
              /\ requests[i].response.settled = "resolved"
              /\ requests[i].response.body # Null
              => /\ pc = "resolved"
                 /\ result = [status |-> "resolved",
                              value |-> requests[i].response.body.token]

\* a call that found both the project and the user to exist and resolved
\* with the token
C2_Witness ==
    /\ op = "getAccessToken"
    /\ pc = "resolved"
    /\ result.value = "accesstoken"
    /\ SaysAlreadyExists(requests[1].response)
    /\ \E i \in 1..Len(requests) :
          Endpoint(requests[i]) = "users/create" /\ SaysAlreadyExists(requests[i].response)

-----------------------------------------------------------------------------
(* C3 *)

\* the message getAccessToken rejects with when request i fails hard
FailureMessage(i) ==
    LET e == Endpoint(requests[i])
        msg == requests[i].response.message
    IN  CASE e = "projects/create" ->
                "Failed to create project " \o Tpl(projectData.projectKey) \o ": " \o msg
          [] e = "users/create" ->
                "Failed to create user " \o Tpl(projectData.username) \o ": " \o msg
          [] e = "permissions/add_user" ->
                "Failed to grant user " \o Tpl(projectData.username) \o " permission: " \o msg
          [] e = "user_tokens/generate" ->
                "Failed to generate user " \o Tpl(projectData.username) \o " token: " \o msg

\* C3: every hard failure of a provisioning step (a create rejected otherwise
\* than with 400 and 'already exists', or any rejection of grant or generate)
\* makes getAccessToken reject with 'Failed to <step> <subject>: <message>'.
C3_HardFailureMessage ==
    op = "getAccessToken" =>
        \A i \in 1..Len(requests) :
            HardFailure(i) =>
                /\ pc = "rejected"
                /\ result = [status |-> "rejected", value |-> FailureMessage(i)]

\* a createUser rejected with the text 'already exists' but a status other
\* than 400, which fails the call with its message
C3_Witness ==
    /\ op = "getAccessToken"
    /\ pc = "rejected"
    /\ LET r == Last(requests).response IN
       /\ Endpoint(Last(requests)) = "users/create"
       /\ r.statusCode # 400
       /\ Includes(r.message, "already exists")
       /\ result.value = "Failed to create user user-pipeline-123: user already exists."

-----------------------------------------------------------------------------
(* C4 *)

\* C4: when a step of getAccessToken fails hard, no request of a later step
\* is issued: the failed request is the last request of the call.
C4_NoRequestAfterFailure ==
    op = "getAccessToken" =>
        \A i \in 1..Len(requests) : HardFailure(i) => i = Len(requests)

\* a grant that failed, with no generate-token request after it
C4_Witness ==
    /\ op = "getAccessToken"
    /\ pc = "rejected"
    /\ Endpoint(Last(requests)) = "permissions/add_user"
    /\ Last(requests).response.settled = "rejected"

-----------------------------------------------------------------------------
(* C5 *)

\* C5: configureGitApp never fails getAccessToken: whatever the get-binding
\* and the set-github-binding requests settle with, the chain goes on to
\* create-user, and logger.error is called exactly once for a failed
\* set-github-binding and not otherwise.
C5_GitAppNeverFails ==
    op = "getAccessToken" =>
        LET eps == EndpointsOf(requests) IN
        /\ \A i \in 1..Len(requests) :
              requests[i].response.settled # "pending" =>
                 /\ eps[i] = "alm_settings/get_binding" =>
                       /\ i < Len(requests)
                       /\ eps[i + 1] \in {"alm_settings/set_github_binding", "users/create"}
                 /\ eps[i] = "alm_settings/set_github_binding" =>
                       i < Len(requests) /\ eps[i + 1] = "users/create"
        /\ Len(loggerError) =
              Cardinality({i \in 1..Len(requests) :
                              /\ eps[i] = "alm_settings/set_github_binding"
                              /\ requests[i].response.settled = "rejected"})

\* both requests of configureGitApp rejected, one error logged, and
\* create-user issued
C5_Witness ==
    /\ op = "getAccessToken"
    /\ Len(requests) >= 4
    /\ requests[2].response.settled = "rejected"
    /\ Endpoint(requests[3]) = "alm_settings/set_github_binding"
    /\ requests[3].response.settled = "rejected"
    /\ Endpoint(requests[4]) = "users/create"
    /\ Len(loggerError) = 1

-----------------------------------------------------------------------------
(* C6 *)

\* C6: getInfo never rejects and never throws: for every request object and
\* every outcome of the metrics request its promise resolves to an object
\* that contains envVars.
C6_GetInfoNeverThrows ==
    op = "getInfo" =>
        /\ pc \in {"getMetrics", "resolved"}
        /\ pc = "resolved" =>
              result.status = "resolved" /\ "envVars" \in DOMAIN result.value

-----------------------------------------------------------------------------
(* C7 *)

\* C7: when startTime or endTime is absent, getInfo resolves to an object
\* whose only key is envVars and issues no request; when projectKey,
\* startTime and endTime are all present it issues exactly one request and
\* the result contains coverage, tests and projectUrl.
C7_MetricsOnlyWithTimes ==
    op = "getInfo" =>
        IF ~Truthy(args.startTime) \/ ~Truthy(args.endTime)
        THEN /\ pc = "resolved"
             /\ result.status = "resolved"
             /\ DOMAIN result.value = {"envVars"}
             /\ requests = <<>>
        ELSE /\ Len(requests) = 1
             /\ pc \in {"getMetrics", "resolved"}
             /\ pc = "resolved" =>
                   {"coverage", "tests", "projectUrl"} \subseteq DOMAIN result.value

\* the statement of C7 for the calls in which getProjectData returns
C7_WhenResolverReturns ==
    op = "getInfo" /\ pc # "thrown" => C7_MetricsOnlyWithTimes

-----------------------------------------------------------------------------
(* C8 *)

\* C8: whenever the metrics request rejects, with any status code and any
\* message, getMetrics yields coverage 'N/A' and tests 'N/A', and getInfo
\* resolves with those values together with projectUrl and envVars.
C8_MetricsFailureDegrades ==
    op = "getInfo" /\ Len(requests) = 1 /\ requests[1].response.settled = "rejected" =>
        /\ pc = "resolved"
        /\ result.status = "resolved"
        /\ DOMAIN result.value = {"envVars", "coverage", "tests", "projectUrl"}
        /\ result.value.coverage = "N/A"
        /\ result.value.tests = "N/A"
        /\ result.value.envVars.SD_SONAR_PROJECT_KEY = projectData.projectKey

\* a metrics request rejected with a status other than 404, and getInfo
\* resolved
C8_Witness ==
    /\ op = "getInfo"
    /\ pc = "resolved"
    /\ Len(requests) = 1
    /\ requests[1].response.settled = "rejected"
    /\ requests[1].response.statusCode = 400
    /\ result.value.tests = "N/A"

-----------------------------------------------------------------------------
(* C9 *)

\* C9: on a metrics request failure logger.error is called zero times when
\* the error has statusCode 404 and a message matching "Component key
\* '<anything>' not found", and exactly once for every other failure.
C9_MetricsFailureLogging ==
    op = "getInfo" /\ Len(requests) = 1 /\ requests[1].response.settled = "rejected" =>
        LET err == requests[1].response IN
        Len(loggerError) =
            IF err.statusCode = 404 /\ ComponentNotFound(err.message) THEN 0 ELSE 1

\* a 404 with another message, logged once
C9_Witness ==
    /\ op = "getInfo"
    /\ Len(requests) = 1
    /\ requests[1].response.settled = "rejected"
    /\ requests[1].response.statusCode = 404
    /\ ~ComponentNotFound(requests[1].response.message)
    /\ Len(loggerError) = 1

-----------------------------------------------------------------------------
(* C10 *)

\* C10: without an explicit projectKey the resolved scope is the scope
\* annotation when it is present and not the literal 'undefined', and
\* otherwise 'pipeline' in enterprise mode and 'job' outside it; pipeline
\* scope yields projectKey 'pipeline:<pipelineId>', projectName pipelineName
\* and username 'user-pipeline-<pipelineId>'.
C10_ResolvedScope ==
    op = "getProjectData" /\ pc = "resolved" /\ args.projectKey = Undefined =>
        LET expected == IF args.scope # Undefined /\ args.scope # "undefined"
                        THEN args.scope
                        ELSE IF sonarEnterprise THEN "pipeline" ELSE "job"
        IN  /\ projectData.projectScope = expected
            /\ expected = "pipeline" =>
                  /\ projectData.projectKey = "pipeline:" \o Tpl(args.pipelineId)
                  /\ projectData.projectName = args.pipelineName
                  /\ projectData.username = "user-pipeline-" \o Tpl(args.pipelineId)

\* the annotation 'undefined' in enterprise mode, resolved to the pipeline
C10_Witness ==
    /\ op = "getProjectData"
    /\ pc = "resolved"
    /\ args.projectKey = Undefined
    /\ args.scope = "undefined"
    /\ sonarEnterprise
    /\ projectData.projectKey = "pipeline:123"
    /\ projectData.projectScope = "pipeline"

-----------------------------------------------------------------------------
(* C11 *)

\* the first two elements of projectKey.split(':') for the keys of ResolverArgs
ExplicitKeyParts ==
    [k \in {"job:1", "pipeline:123", "job", "job:1:2"} |->
        CASE k = "job:1" -> <<"job", "1">>
          [] k = "pipeline:123" -> <<"pipeline", "123">>
          [] k = "job" -> <<"job", "undefined">>
          [] k = "job:1:2" -> <<"job", "1">>]

\* C11: an explicit projectKey is returned unchanged whatever the other
\* inputs are; with (scope, id) the first two parts of the key split on ':',
\* username is 'user-<scope>-<id>', projectScope is <scope>, and projectName
\* is pipelineName for scope 'pipeline' and '<pipelineName>:<jobName>'
\* otherwise.
C11_ExplicitProjectKey ==
    op = "getProjectData" /\ args.projectKey # Undefined =>
        LET parts == ExplicitKeyParts[args.projectKey] IN
        /\ pc = "resolved"
        /\ projectData.projectKey = args.projectKey
        /\ projectData.username = "user-" \o parts[1] \o "-" \o parts[2]
        /\ projectData.projectScope = parts[1]
        /\ projectData.projectName =
              IF parts[1] = "pipeline" THEN args.pipelineName
              ELSE Tpl(args.pipelineName) \o ":" \o Tpl(args.jobName)

\* a job key with a third part, given together with a pipeline annotation,
\* a PR number and enterprise mode
C11_Witness ==
    /\ op = "getProjectData"
    /\ pc = "resolved"
    /\ args.projectKey = "job:1:2"
    /\ args.scope = "pipeline"
    /\ args.prNum = "5"
    /\ args.jobName = "PR-5:main"
    /\ sonarEnterprise
    /\ projectData = [projectKey |-> "job:1:2", username |-> "user-job-1",
                      projectName |-> "d2lam/mytest:PR-5:main",
                      projectScope |-> "job"]

-----------------------------------------------------------------------------
(* C12 *)

\* s is the part of key before its first ':'
BeforeFirstColon(key, s) ==
    /\ ~Includes(s, ":")
    /\ \/ key = s
       \/ /\ Len(key) > Len(s)
          /\ SubSeq(key, 1, Len(s) + 1) = s \o ":"

\* C12: every descriptor the resolver returns, on every path and for every
\* value of the scope annotation, has projectScope 'job' or 'pipeline', and
\* projectScope is the part of projectKey before the first ':'.
C12_ScopeRecoverable ==
    op = "getProjectData" /\ pc = "resolved" =>
        /\ projectData.projectScope \in {"job", "pipeline"}
        /\ BeforeFirstColon(projectData.projectKey, projectData.projectScope)

\* the same, for the identities whose scope annotation is absent, 'undefined',
\* 'job' or 'pipeline'
C12_KnownAnnotations ==
    op = "getProjectData" /\ pc = "resolved"
        /\ args.scope \in {Undefined, "undefined", "job", "pipeline"} =>
        /\ projectData.projectScope \in {"job", "pipeline"}
        /\ BeforeFirstColon(projectData.projectKey, projectData.projectScope)

-----------------------------------------------------------------------------
(* C13 *)

\* the resolver was called without an explicit key and resolved the job scope
InJobScope ==
    /\ op = "getProjectData"
    /\ pc = "resolved"
    /\ args.projectKey = Undefined
    /\ \/ args.scope = "job"
       \/ args.scope \in {Undefined, "undefined"} /\ ~sonarEnterprise

\* the job names of ResolverArgs of the form 'PR-<number>(:<originalJobName>)?'
PrJobNames == {"PR-5:main", "PR-5"}

C13_KeyFollowsPrNumber ==
    InJobScope =>
        /\ projectData.projectKey =
              IF sonarEnterprise /\ Truthy(args.prNum)
              THEN "job:" \o Tpl(args.prParentJobId)
              ELSE "job:" \o Tpl(args.jobId)
        /\ projectData.projectName =
              IF sonarEnterprise /\ Truthy(args.prNum) /\ args.jobName \in PrJobNames
              THEN Tpl(args.pipelineName) \o ":" \o
                   (IF args.jobName = "PR-5:main" THEN "main" ELSE "undefined")
              ELSE Tpl(args.pipelineName) \o ":" \o Tpl(args.jobName)

-----------------------------------------------------------------------------
(* C14 *)

\* a template line with its placeholder replaced by the configured value
Substituted(line) ==
    CASE line = "h=$SD_SONAR_HOST" -> "h=" \o config.sonarHost
      [] line = "u=$SD_UI_URL" -> "u=" \o config.sdUiUrl
      [] line = "e=$SD_SONAR_ENTERPRISE" ->
            IF config.sonarEnterprise THEN "e=true" ELSE "e=false"
      [] OTHER -> line

\* the lines chained by ' && ', in their order
RECURSIVE AndChain(_)
AndChain(lines) ==
    IF Len(lines) = 1 THEN lines[1]
    ELSE lines[1] \o " && " \o AndChain(SubSeq(lines, 2, Len(lines)))

\* the template t with the placeholders of the picked lines replaced and the
\* suffix on the last line alone
FromTemplate(t, pick) ==
    [i \in 1..Len(t) |->
        (IF pick[i] THEN Substituted(t[i]) ELSE t[i]) \o
        (IF i = Len(t) THEN " || true" ELSE "")]

\* C14: getUploadCoverageCmd never rejects; its result is the lines of the
\* template joined by ' && ' in their original order, with only the last line
\* suffixed by ' || true' and every other line unchanged apart from
\* placeholder substitution.
C14_UploadCommand ==
    op = "getUploadCoverageCmd" =>
        /\ pc = "resolved"
        /\ result.status = "resolved"
        /\ \E n \in 1..MaxLines : \E t \in [1..n -> TemplateLines] :
              /\ COMMANDS = FileOf(t)
              /\ \E pick \in [1..n -> BOOLEAN] :
                    result.value = AndChain(FromTemplate(t, pick))

\* a template that names the host on its first and on its last line: the
\* first is replaced, the last is left as it was and carries the suffix
C14_Witness ==
    /\ op = "getUploadCoverageCmd"
    /\ COMMANDS = "h=$SD_SONAR_HOST\nscan\nh=$SD_SONAR_HOST"
    /\ result.value =
          "h=https://sonar.screwdriver.cd && scan && h=$SD_SONAR_HOST || true"

-----------------------------------------------------------------------------
(* C15 *)

\* C15: every invocation of a public operation issues at most five outbound
\* requests, in every configuration, enterprise mode with a missing Git-app
\* binding included.
C15_AtMostFiveRequests == Len(requests) <= 5

\* C15, amended: an invocation issues at most six requests, and a sixth only
\* when getAccessToken runs in enterprise mode, get_binding was rejected and
\* the binding was added; getInfo issues at most one and getUploadCoverageCmd
\* none.
C15_AtMostSixRequests ==
    /\ Len(requests) <= 6
    /\ Len(requests) = 6 =>
          /\ op = "getAccessToken"
          /\ sonarEnterprise
          /\ requests[2].response.settled = "rejected"
          /\ Endpoint(requests[3]) = "alm_settings/set_github_binding"
    /\ op = "getInfo" => Len(requests) <= 1
    /\ op = "getUploadCoverageCmd" => Len(requests) = 0

\* the enterprise adapter added the binding and went on to the token
C15_Witness ==
    /\ op = "getAccessToken"
    /\ pc = "resolved"
    /\ sonarEnterprise
    /\ Len(requests) = 6
    /\ Endpoint(requests[6]) = "user_tokens/generate"

-----------------------------------------------------------------------------
(* C16 *)

\* C16: adapters do not interfere: every operation invoked on an adapter uses
\* that adapter's own sonarHost, adminToken, sonarEnterprise and
\* coverage-token URL in its request URLs, authentication, scope resolution
\* and returned envVars, whether or not another adapter was constructed in
\* between.
C16_NoInterference ==
    /\ \A i \in 1..Len(requests) :
          /\ IsPrefix(config.sonarHost \o "/api/", requests[i].url)
          /\ requests[i].username = config.adminToken
    /\ op = "getInfo" /\ pc \in {"getMetrics", "resolved"} =>
          /\ projectData.projectScope =
                IF config.sonarEnterprise THEN "pipeline" ELSE "job"
          /\ infoObject.envVars.SD_SONAR_HOST = config.sonarHost
          /\ infoObject.envVars.SD_SONAR_ENTERPRISE = config.sonarEnterprise
          /\ IsPrefix(config.sdApiUrl \o "/v4/coverage/token?",
                      infoObject.envVars.SD_SONAR_AUTH_URL)

\* the same, as long as the module's variables are those of the adapter called
C16_WhileAlone ==
    sonarHost = config.sonarHost => C16_NoInterference

-----------------------------------------------------------------------------
(* C17 *)

\* C17: getAccessToken calls for the same build whose requests interleave in
\* any order, against a server that rejects a duplicate project or user
\* creation with 400 'already exists', all resolve with a token; no call
\* rejects because another created the project or the user first.
C17_ConcurrentCallsResolve ==
    \A i \in DOMAIN calls :
        /\ calls[i].pc # "rejected"
        /\ calls[i].result.status # "rejected"
        /\ calls[i].pc = "resolved" =>
              /\ calls[i].result.status = "resolved"
              /\ calls[i].result.value = "token-" \o uuidv4(2 * i)

\* both calls resolved, and each lost one race: the project existed for the
\* second call, the user for the first
C17_Witness ==
    /\ DOMAIN calls = 1..NumCalls
    /\ \A i \in DOMAIN calls : calls[i].pc = "resolved"
    /\ calls[2].requests[1].response.statusCode = 400
    /\ \E k \in DOMAIN calls[1].requests :
          /\ calls[1].requests[k].caller = "createUser"
          /\ calls[1].requests[k].response.statusCode = 400
    /\ calls[1].result.value # calls[2].result.value

-----------------------------------------------------------------------------
(* C18 *)

\* the descriptor the resolver computes for the call
ResolverDescriptor ==
    getProjectData([enterpriseEnabled |-> sonarEnterprise,
                    jobId |-> args.buildCredentials.jobId,
                    jobName |-> args.jobName,
                    prParentJobId |-> args.buildCredentials.prParentJobId,
                    pipelineId |-> args.buildCredentials.pipelineId,
                    pipelineName |-> args.pipelineName,
                    scope |-> args.scope,
                    projectKey |-> args.projectKey,
                    prNum |-> Undefined])

\* every provisioning request so far is the one made for the descriptor d
RequestsFor(d) ==
    \A i \in 1..Len(requests) :
        requests[i].url \in
            {createProject(d.projectKey).url,
             getBinding(d.projectKey).url,
             setGithubBinding(d.projectKey, d.projectName).url,
             createUser(d.username, uuidv4(1)).url,
             grantUserPermission(d.username, d.projectKey).url,
             generateToken(d.username, uuidv4(2)).url}

\* getAccessToken works with the caller's descriptor if supplied holds, and
\* with the resolver's otherwise
UsesDescriptor(supplied) ==
    LET d == IF supplied
             THEN [username |-> args.username, projectKey |-> args.projectKey,
                   projectName |-> args.projectName]
             ELSE ResolverDescriptor
    IN  /\ projectData.username = d.username
        /\ projectData.projectKey = d.projectKey
        /\ projectData.projectName = d.projectName
        /\ RequestsFor(d)

\* C18: getAccessToken uses the caller-supplied descriptor {username,
\* projectKey, projectName} unchanged in every provisioning request when all
\* three fields are present and none of them contains 'undefined'; when a
\* field is missing or the descriptor contains 'undefined', it uses the
\* descriptor computed by the resolver.
C18_SuppliedDescriptor ==
    op = "getAccessToken" =>
        UsesDescriptor(\A f \in {args.username, args.projectKey, args.projectName} :
                          f # Undefined /\ ~Includes(f, "undefined"))

\* what the code does: of the three fields only projectName is searched for
\* 'undefined'
C18_NameDecides ==
    op = "getAccessToken" =>
        UsesDescriptor(/\ \A f \in {args.username, args.projectKey, args.projectName} :
                             f # Undefined
                       /\ ~Includes(args.projectName, "undefined"))

-----------------------------------------------------------------------------
(* C19 *)

\* the measures of the response of the metrics request, in its body or not
MeasuresOf(r) ==
    IF "measures" \in DOMAIN r.body THEN r.body.measures ELSE r.body.body.measures

\* the history values that are numbers, and the numbers they are
NumberOf ==
    [v \in {"10", "10.0", "2", "2.0", "1", "1.0"} |->
        CASE v \in {"10", "10.0"} -> 10 [] v \in {"2", "2.0"} -> 2 [] OTHER -> 1]

CountOf(v) == IF v = Undefined THEN 0 ELSE NumberOf[v]

\* getInfo resolved with the metrics of a fulfilled request
MetricsRead ==
    /\ op = "getInfo"
    /\ pc = "resolved"
    /\ Len(requests) = 1
    /\ requests[1].response.settled = "resolved"

\* the tests string is what the claim says for the measures m
TestsStringFor(m) ==
    IF m.tests \in DOMAIN NumberOf
    THEN /\ m.test_errors \in DOMAIN NumberOf \cup {Undefined}
         /\ m.test_failures \in DOMAIN NumberOf \cup {Undefined}
         => infoObject.tests =
              ToString(NumberOf[m.tests] - CountOf(m.test_errors)
                                         - CountOf(m.test_failures))
                  \o "/" \o ToString(NumberOf[m.tests])
    ELSE infoObject.tests = "N/A"

\* C19: when the latest 'tests' value is numeric, the tests string is
\* '<pass>/<total>' with pass = total - test_errors - test_failures, a
\* missing test_errors or test_failures counting as 0; when the 'tests'
\* metric is absent or not numeric the tests string is 'N/A'.
C19_TestsString ==
    MetricsRead => TestsStringFor(MeasuresOf(requests[1].response))

\* the same, for measures the request resolved with directly and a 'tests'
\* value that is not the empty string
C19_DecimalOrText ==
    /\ MetricsRead
    /\ "measures" \in DOMAIN requests[1].response.body
    /\ requests[1].response.body.measures.tests # ""
    => TestsStringFor(requests[1].response.body.measures)

-----------------------------------------------------------------------------
(* C20 *)

\* the generate-token request of the call was answered, and its answer
TokenAnswered ==
    /\ op = "getAccessToken"
    /\ requests # <<>>
    /\ Last(requests).caller = "generateToken"
    /\ Last(requests).response.settled = "resolved"

\* the answer carries a token
HasToken(response) ==
    /\ response.body # Null
    /\ response.body.token # Undefined

\* C20: whenever getAccessToken resolves, its value is exactly the token of
\* the generate-token response of that call; it never resolves with an
\* absent token, and a generate-token response without a token leads to a
\* rejection that carries one of the step-specific 'Failed to ...' messages.
C20_TokenOrFailure ==
    /\ op = "getAccessToken" /\ pc = "resolved" =>
          /\ TokenAnswered
          /\ HasToken(Last(requests).response)
          /\ result.value = Last(requests).response.body.token
    /\ TokenAnswered /\ ~HasToken(Last(requests).response) =>
          /\ pc = "rejected"
          /\ IsPrefix("Failed to ", result.value)

\* what the code keeps of it: a resolved call carries the token field of
\* the answer, present or not
C20_TokenField ==
    op = "getAccessToken" /\ pc = "resolved" =>
        /\ TokenAnswered
        /\ result.value = Last(requests).response.body.token

-----------------------------------------------------------------------------
(* C21 *)

\* the positions in requests of the requests to endpoint
PositionsOf(endpoint) == {i \in 1..Len(requests) : Endpoint(requests[i]) = endpoint}

\* C21: during getAccessToken a set-github-binding request is issued if
\* and only if the get-binding request failed, enterprise mode is on and
\* projectName is non-empty; when get-binding succeeds no
\* set-github-binding request is issued, and the call makes exactly five
\* requests and calls logger.error not once.
C21_BindingIffMissing ==
    op = "getAccessToken" =>
        LET gets == PositionsOf("alm_settings/get_binding")
            sets == PositionsOf("alm_settings/set_github_binding")
        IN  /\ sets # {} <=>
                  /\ \E i \in gets : requests[i].response.settled = "rejected"
                  /\ sonarEnterprise
                  /\ projectData.projectName \notin {Undefined, ""}
            /\ (\E i \in gets : requests[i].response.settled = "resolved") =>
                  /\ sets = {}
                  /\ loggerError = <<>>
                  /\ Len(requests) <= 5
                  /\ pc = "resolved" => Len(requests) = 5

\* the enterprise adapter found the binding and resolved after five requests
C21_Witness ==
    /\ op = "getAccessToken"
    /\ pc = "resolved"
    /\ sonarEnterprise
    /\ projectData.projectName = "d2lam/mytest"
    /\ requests[2].response.settled = "resolved"
    /\ Endpoint(requests[3]) = "users/create"
    /\ Len(requests) = 5
    /\ loggerError = <<>>

-----------------------------------------------------------------------------
(* C22 *)

\* C22: no remote call is retried: within one getAccessToken each of
\* projects/create, alm_settings/get_binding,
\* alm_settings/set_github_binding, users/create, permissions/add_user and
\* user_tokens/generate is requested at most once, and within one getInfo
\* measures/search_history is requested at most once, whatever the
\* responses are.
C22_NoRetry ==
    /\ op = "getAccessToken" =>
          \A e \in {"projects/create", "alm_settings/get_binding",
                    "alm_settings/set_github_binding", "users/create",
                    "permissions/add_user", "user_tokens/generate"} :
              Cardinality(PositionsOf(e)) <= 1
    /\ op = "getInfo" => Cardinality(PositionsOf("measures/search_history")) <= 1

\* a chain that failed at create-user after the binding could not be added:
\* two failures, every endpoint asked once
C22_Witness ==
    /\ op = "getAccessToken"
    /\ pc = "rejected"
    /\ Len(requests) = 4
    /\ requests[3].response.settled = "rejected"
    /\ Endpoint(requests[4]) = "users/create"
    /\ requests[4].response.settled = "rejected"

-----------------------------------------------------------------------------
(* C23 *)

\* url ends with the pull request of the call
CarriesPullRequest(url) ==
    /\ args.prNum # Undefined
    /\ LET tail == "&pullRequest=" \o args.prNum IN
       Len(url) >= Len(tail) /\ SubSeq(url, Len(url) - Len(tail) + 1, Len(url)) = tail

\* getInfo was called with both times
InfoWithTimes ==
    /\ op = "getInfo"
    /\ pc \in {"getMetrics", "resolved"}
    /\ Truthy(args.startTime)
    /\ Truthy(args.endTime)

\* C23: in getInfo with start and end time present, the URL of the metrics
\* request carries '&pullRequest=<prNum>' if and only if the adapter is in
\* enterprise mode and prNum is present, and the returned projectUrl carries
\* it under exactly the same condition, so that the two always agree.
C23_PullRequestAgrees ==
    InfoWithTimes =>
        /\ Len(requests) = 1
        /\ CarriesPullRequest(requests[1].url) <=>
              config.sonarEnterprise /\ Truthy(args.prNum)
        /\ pc = "resolved" =>
              /\ CarriesPullRequest(infoObject.projectUrl) <=>
                    config.sonarEnterprise /\ Truthy(args.prNum)
              /\ CarriesPullRequest(infoObject.projectUrl) <=>
                    CarriesPullRequest(requests[1].url)

\* the same, as long as the module's variables are those of the adapter called
C23_WhileAlone ==
    sonarHost = config.sonarHost => C23_PullRequestAgrees

-----------------------------------------------------------------------------
(* C24 *)

\* getAccessToken runs for the build getInfo has reported on
AfterInfo == op = "getAccessToken" /\ infoObject # <<>>

\* C24: for the same build identity on the same adapter and no
\* caller-supplied descriptor, getInfo and getAccessToken resolve the same
\* projectKey: the project on which getAccessToken grants scan permission is
\* the project getInfo reported as SD_SONAR_PROJECT_KEY.
C24_SameProjectKey ==
    AfterInfo =>
        /\ projectData.projectKey = infoObject.envVars.SD_SONAR_PROJECT_KEY
        /\ \A i \in PositionsOf("permissions/add_user") :
              QueryParam(requests[i].url, "projectKey") =
                  infoObject.envVars.SD_SONAR_PROJECT_KEY

\* the same on an adapter that is not in enterprise mode, where the
\* resolver never takes its PR branch
C24_OffEnterprise == ~sonarEnterprise => C24_SameProjectKey

-----------------------------------------------------------------------------
(* C25 *)

\* the second resolution: the same identity, with the projectKey the first
\* resolution returned
ResolvedAgain ==
    getProjectData([enterpriseEnabled |-> sonarEnterprise]
                   @@ [args EXCEPT !.projectKey = projectData.projectKey])

Resolution == op = "getProjectData" /\ pc = "resolved"

\* C25: resolution is stable under re-resolution: for every identity,
\* resolving again with the same identity plus the projectKey returned by the
\* first resolution yields the same projectKey, username, projectName and
\* projectScope as the first resolution.
C25_StableUnderReResolution ==
    Resolution =>
        /\ ResolvedAgain.projectKey = projectData.projectKey
        /\ ResolvedAgain.username = projectData.username
        /\ ResolvedAgain.projectName = projectData.projectName
        /\ ResolvedAgain.projectScope = projectData.projectScope

\* the projectKey and the username are stable for every identity
C25_KeyAndUsernameStable ==
    Resolution =>
        /\ ResolvedAgain.projectKey = projectData.projectKey
        /\ ResolvedAgain.username = projectData.username

\* all four fields are stable when the first resolution did not take the PR
\* branch and returned one of the two scopes
C25_StableOutsidePrBranch ==
    /\ Resolution
    /\ projectData.projectScope \in {"job", "pipeline"}
    /\ ~(args.projectKey = Undefined
         /\ PrBranch([enterpriseEnabled |-> sonarEnterprise] @@ args))
    => C25_StableUnderReResolution

-----------------------------------------------------------------------------
(* C26 *)

\* the keys of the projects of the build with these credentials
KeysOf(buildCredentials) ==
    {"job:" \o Tpl(buildCredentials.jobId),
     "job:" \o Tpl(buildCredentials.prParentJobId),
     "pipeline:" \o Tpl(buildCredentials.pipelineId)}

\* the username derived from a key '<scope>:<id>'
UsernameOf(projectKey) ==
    "user-" \o Tpl(SplitFirst(projectKey)) \o "-" \o Tpl(SplitSecond(projectKey))

\* the grant-permission requests of the call are for a project of the calling
\* build and for the user of that project
GrantsOnOwnProject ==
    \A i \in PositionsOf("permissions/add_user") :
        LET projectKey == QueryParam(requests[i].url, "projectKey") IN
        /\ projectKey \in KeysOf(args.buildCredentials)
        /\ QueryParam(requests[i].url, "login") = UsernameOf(projectKey)

C26_WhenResolved ==
    /\ op = "getAccessToken"
    /\ args.projectKey = Undefined
    /\ args.username = Undefined
    => GrantsOnOwnProject

-----------------------------------------------------------------------------
(* C27 *)

BothNamesSupplied == args.pipelineName # Undefined /\ args.jobName # Undefined

\* C27: when pipelineName and jobName are both supplied, the resolver never
\* returns a projectName containing the substring 'undefined', in every scope
\* and mode, enterprise PR builds whose job name is 'PR-<number>' with no
\* ':<originalJobName>' suffix included.
C27_NoUndefinedInName ==
    Resolution /\ BothNamesSupplied
        => ~Includes(Tpl(projectData.projectName), "undefined")

\* the same for every job name that is not a bare 'PR-<number>' resolved
\* through the PR branch
C27_WithSuffix ==
    /\ Resolution
    /\ BothNamesSupplied
    /\ ~(/\ args.projectKey = Undefined
         /\ PrBranch([enterpriseEnabled |-> sonarEnterprise] @@ args)
         /\ PrRegexColon(args.jobName) = 0)
    => ~Includes(Tpl(projectData.projectName), "undefined")

-----------------------------------------------------------------------------
(* C29 *)

\* how often sub occurs in s
Occurrences(s, sub) ==
    Cardinality({i \in 1..(Len(s) - Len(sub) + 1) : SubSeq(s, i, i + Len(sub) - 1) = sub})

EndsWith(s, sub) ==
    Len(sub) <= Len(s) /\ SubSeq(s, Len(s) - Len(sub) + 1, Len(s)) = sub

OrTrue == " || true"

\* C29: getUploadCoverageCmd is repeatable: any number of calls on the same
\* adapter, interleaved with any other operations, return the identical
\* string, which contains the ' || true' suffix exactly once, at its end.
C29_IdenticalWithOneSuffix ==
    \A i \in DOMAIN returned :
        /\ returned[i] = returned[1]
        /\ EndsWith(returned[i], OrTrue)
        /\ Occurrences(returned[i], OrTrue) = 1

\* C29, amended: every call returns the identical string; it ends with
\* ' || true', and holds ' || true' once more than the template does.
C29_IdenticalWithSuffixAdded ==
    \A i \in DOMAIN returned :
        /\ returned[i] = returned[1]
        /\ EndsWith(returned[i], OrTrue)
        /\ Occurrences(returned[i], OrTrue) = Occurrences(COMMANDS, OrTrue) + 1

\* a second call, after getInfo and getAccessToken ran on the adapter, over a
\* template that holds '|| true' itself
C29_Witness ==
    /\ op = "getUploadCoverageCmd"
    /\ pc = "resolved"
    /\ Len(returned) >= 2
    /\ requests # <<>>
    /\ infoObject # <<>>
    /\ Occurrences(COMMANDS, OrTrue) > 0

-----------------------------------------------------------------------------
(* C28 *)

\* C28: getInfo is read-only towards SonarQube: in every invocation the only
\* request it can issue is a GET to measures/search_history, and it never
\* issues any of the provisioning requests (project create, user create,
\* binding, permission grant, token generation).
C28_InfoReadsOnly ==
    op = "getInfo" =>
        /\ Len(requests) <= 1
        /\ \A i \in DOMAIN requests :
              /\ requests[i].method = "GET"
              /\ Endpoint(requests[i]) = "measures/search_history"
              /\ \A k \in DOMAIN ChainWithBinding :
                    Endpoint(requests[i]) # ChainWithBinding[k]

\* getInfo resolved after its request for the measures was answered
C28_Witness ==
    /\ op = "getInfo"
    /\ pc = "resolved"
    /\ Len(requests) = 1
    /\ requests[1].response.settled = "resolved"

-----------------------------------------------------------------------------
(* C30 *)

\* C30: assuming every outbound request eventually settles, every
\* getAccessToken invocation eventually settles: it either resolves with a
\* token or rejects, after a finite number of requests, and never remains
\* pending.
C30_TokenOrRejection ==
    (op = "getAccessToken") ~>
        \/ pc = "rejected" /\ result.status = "rejected"
        \/ /\ pc = "resolved"
           /\ result.status = "resolved"
           /\ Truthy(result.value)
           /\ Len(requests) <= Len(ChainWithBinding)

\* every invocation settles, resolved or rejected, within the six requests of
\* the chain
C30_EventuallySettles ==
    (op = "getAccessToken") ~>
        /\ pc \in {"resolved", "rejected"}
        /\ result.status = pc
        /\ Len(requests) <= Len(ChainWithBinding)

====
